---- MODULE Spec2Model ----
(***************************************************************************)
(* Transport and streaming-reader layer of generic-core:                   *)
(*   AioHttpTransport (constructor, open, close, send) and                 *)
(*   AioHttpStreamDownloadGenerator (constructor, __anext__),              *)
(* generic/core/pipeline/transport/_aiohttp.py, with                       *)
(* handle_non_stream_rest_response of generic/core/pipeline/_tools.py,     *)
(* and the URL helpers _format_url_section and _urljoin of                 *)
(* generic/core/pipeline/transport/_base.py.                               *)
(***************************************************************************)
EXTENDS Integers, Sequences, FiniteSets, TLC

VARIABLES
    ctor,            \* outcome of AioHttpTransport.__init__: "none", "ok", "ValueError"
    supplied,        \* the session argument of __init__ (NoSession when absent)
    owner_arg,       \* the session_owner argument of __init__
    session,         \* self.session
    session_owner,   \* self._session_owner
    block_size,      \* self.connection_config.data_block_size
    connection_config, \* self.connection_config: timeout, read_timeout, verify, cert
    init_kwargs,     \* the keyword arguments __init__ was called with
    liveSessions,    \* aiohttp.ClientSession objects that exist and are not closed
    closedSessions,  \* aiohttp.ClientSession objects on which close() was awaited
    released,        \* some close() call has released a session
    close_called,    \* some close() call has returned
    supplied_auto,   \* auto_decompress of the session passed to __init__
    response,        \* `response` of the latest send (line 204), and its backend stream
    reader,          \* the AioHttpStreamDownloadGenerator bound to response
    lastOp,          \* the latest call: its inputs and what it returned or raised
    tasks,           \* the send coroutines in flight on the event loop, by task
    fmt,             \* the frame of one _format_url_section call
    joined,          \* one _urljoin call: its arguments and what it returned
    client,          \* one PipelineClientBase and the latest call of its methods
    batch,           \* one _prepare_multipart_body_helper call and its result
    http_request     \* the request of one _format_parameters_helper call, and the call

vars == <<ctor, supplied, owner_arg, session, session_owner, block_size,
          connection_config, init_kwargs,
          liveSessions, closedSessions, released, close_called,
          supplied_auto, response, reader, lastOp, tasks, fmt, joined,
          client, batch, http_request>>

transportVars == <<ctor, supplied, owner_arg, session, session_owner, block_size,
                   connection_config, init_kwargs,
                   liveSessions, closedSessions, released, close_called,
                   supplied_auto>>

\* What the methods of the transport and of the reader never touch.
otherVars == <<tasks, fmt, joined, client, batch, http_request>>

(***************************************************************************)
(* Bounds of the model.                                                    *)
(***************************************************************************)
MaxBodyLen == 2        \* longest wire body the backend serves
MaxBlockSize == 2      \* largest connection_data_block_size tried
MaxSendBodyLen == 1    \* longest body served to a send call of the transport
MaxTasks == 2          \* send coroutines running concurrently on one transport
MaxKeyLen == 2         \* longest protocol key of a proxies mapping
MaxProxies == 2        \* most entries of a proxies mapping
MaxUrlLen == 3         \* longest request URL matched against the protocol keys
MaxPieces == 3         \* most pieces (characters, placeholders) of a URL template
MaxFairPieces == 2     \* most pieces of a template in the runs checked for termination
MaxBasePieces == 3     \* most pieces of a base URL handed to _urljoin
MaxStubLen == 2        \* most characters of a stub URL handed to _urljoin
MaxRequests == 4       \* most requests of one batch, the outer request included
MaxContentIndex == 1   \* largest content_index a serialization starts from

NoSession == 0         \* Python None in self.session
SuppliedSession == 1   \* the ClientSession object the caller passes to __init__
NoExc == "none"
NoResponse == [exists |-> FALSE]
NoReader == [exists |-> FALSE]

\* Keyword arguments (**kwargs, **config) are functions from names to values.
NoKwargs == [k \in {} |-> k]
\* dict.pop(key, default), as far as the value it returns.
pop(config, key, default) == IF key \in DOMAIN config THEN config[key] ELSE default
\* A keyword that is either left out or given one of vals.
Optional(key, vals) == {NoKwargs} \cup {key :> v : v \in vals}

(***************************************************************************)
(* Exceptions.  Each exception type is given with the classes an except    *)
(* clause of the transport can name that it is an instance of.             *)
(***************************************************************************)
Bases(e) ==
    CASE e = "ClientResponseError"   -> {"ClientResponseError", "ClientError", "Exception"}
      [] e = "ClientPayloadError"    -> {"ClientPayloadError", "ClientError", "Exception"}
      [] e = "ClientConnectionError" -> {"ClientConnectionError", "ClientError", "Exception"}
      [] e = "ServerTimeoutError"    -> {"ServerTimeoutError", "ClientConnectionError",
                                         "ClientError", "TimeoutError", "Exception"}
      [] e = "TimeoutError"          -> {"TimeoutError", "Exception"}
      [] e = "ZlibError"             -> {"ZlibError", "Exception"}
      [] e = "_ResponseStopIteration" -> {"_ResponseStopIteration", "Exception"}
      [] e = "AttributeError"        -> {"AttributeError", "Exception"}
      [] e = "KeyboardInterrupt"     -> {"KeyboardInterrupt", "BaseException"}
      [] OTHER                       -> {e}

IsInstance(e, cls) == cls \in Bases(e)

\* What the aiohttp backend raises from session.request and from content.read.
BackendExceptions ==
    {"ClientResponseError", "ClientPayloadError", "ClientConnectionError",
     "ServerTimeoutError", "TimeoutError"}

IsTimeout(e) == IsInstance(e, "TimeoutError")

\* An except chain is a sequence of clauses; the first clause whose class the
\* exception is an instance of runs.  raises = "reraise" is a bare `raise`.
RunHandlers(handlers, e) ==
    LET hit == {i \in 1..Len(handlers) : IsInstance(e, handlers[i].catches)}
    IN  IF hit = {}
        THEN [exc |-> e, cause |-> NoExc, closes |-> FALSE]
        ELSE LET h == handlers[CHOOSE i \in hit : \A j \in hit : i <= j]
             IN  IF h.raises = "reraise"
                 THEN [exc |-> e, cause |-> NoExc, closes |-> h.closes]
                 ELSE [exc |-> h.raises,
                       cause |-> IF h.chained THEN e ELSE NoExc,
                       closes |-> h.closes]

Clause(cls, closes, raises, chained) ==
    [catches |-> cls, closes |-> closes, raises |-> raises, chained |-> chained]


(***************************************************************************)
(* AioHttpTransport.__init__                                               *)
(***************************************************************************)
\* Line 85: `if loop and sys.version_info >= (3, 10)`.
LoopRejected(loop, py310) == loop /\ py310

\* The session check with `or` in place of `and`.
MissingSession_either(s, owner) == ~owner \/ s = NoSession

\* Line 90: `if not self._session_owner and not self.session`.
MissingSession(s, owner) == ~owner /\ s = NoSession

\* ConnectionConfiguration(**kwargs): each keyword recognised at construction,
\* else its default.  True, False and None are written as strings.
ConnectionConfiguration(kwargs) ==
    [timeout         |-> pop(kwargs, "connection_timeout", 300),
     read_timeout    |-> pop(kwargs, "read_timeout", 300),
     verify          |-> pop(kwargs, "connection_verify", "True"),
     cert            |-> pop(kwargs, "connection_cert", "None"),
     data_block_size |-> pop(kwargs, "connection_data_block_size", 4096)]

\* The constructor runs once; it either raises ValueError or leaves a transport.
Construct(s, owner, loop, py310, kwargs, auto) ==
    /\ ctor = "none"
    /\ IF LoopRejected(loop, py310) \/ MissingSession(s, owner)
       THEN /\ ctor' = "ValueError"
            /\ UNCHANGED <<supplied, owner_arg, session, session_owner, block_size,
                           connection_config, init_kwargs,
                           liveSessions, supplied_auto>>
       ELSE /\ ctor' = "ok"
            /\ supplied' = s
            /\ owner_arg' = owner
            /\ session' = s
            /\ session_owner' = owner
            /\ connection_config' = ConnectionConfiguration(kwargs)
            /\ block_size' = ConnectionConfiguration(kwargs).data_block_size
            /\ init_kwargs' = kwargs
            /\ liveSessions' = IF s = NoSession THEN {} ELSE {s}
            /\ supplied_auto' = auto
    /\ lastOp' = [op |-> "ctor", session |-> s, session_owner |-> owner,
                  loop |-> loop, py310 |-> py310,
                  exc |-> IF LoopRejected(loop, py310) \/ MissingSession(s, owner)
                          THEN "ValueError" ELSE NoExc]
    /\ UNCHANGED <<closedSessions, released, close_called, response, reader>>
    /\ UNCHANGED otherVars

(***************************************************************************)
(* AioHttpTransport.open                                                   *)
(***************************************************************************)
\* The allocation test without `not self.session`.
ShouldAllocate_wheneverOwner(sess, owner) == owner

\* Line 109: `if not self.session and self._session_owner`.
ShouldAllocate(sess, owner) == sess = NoSession /\ owner

\* A ClientSession object that does not exist yet.
FreshSession == Cardinality(liveSessions \cup closedSessions \cup {SuppliedSession}) + 1

\* The body of open(): the session held afterwards, the session it allocated
\* (NoSession when none), and the exception of `self.session.__aenter__()` when
\* self.session is None.
OpenOutcome(sess, owner) ==
    LET alloc == ShouldAllocate(sess, owner)
        held  == IF alloc THEN FreshSession ELSE sess
    IN  [session   |-> held,
         allocated |-> IF alloc THEN FreshSession ELSE NoSession,
         exc       |-> IF held = NoSession THEN "AttributeError" ELSE NoExc]

open ==
    /\ ctor = "ok"
    /\ LET o == OpenOutcome(session, session_owner)
       IN  /\ session' = o.session
           /\ liveSessions' = IF o.allocated = NoSession THEN liveSessions
                              ELSE liveSessions \cup {o.allocated}
           /\ lastOp' = [op |-> "open", held |-> session, allocated |-> o.allocated,
                         exc |-> o.exc]
    /\ UNCHANGED <<ctor, supplied, owner_arg, session_owner, block_size,
                   connection_config, init_kwargs,
                   closedSessions, released, close_called, supplied_auto,
                   response, reader>>
    /\ UNCHANGED otherVars

(***************************************************************************)
(* AioHttpTransport.close                                                  *)
(***************************************************************************)
\* The release test without `self._session_owner`.
CloseReleases_ignoresOwner(sess, owner) == sess # NoSession

\* Line 125: `if self._session_owner and self.session`.
CloseReleases(sess, owner) == owner /\ sess # NoSession

close ==
    /\ ctor = "ok"
    /\ IF CloseReleases(session, session_owner)
       THEN /\ closedSessions' = closedSessions \cup {session}
            /\ liveSessions' = liveSessions \ {session}
            /\ session_owner' = FALSE
            /\ session' = NoSession
            /\ released' = TRUE
       ELSE UNCHANGED <<closedSessions, liveSessions, session_owner, session, released>>
    /\ close_called' = TRUE
    /\ lastOp' = [op |-> "close",
                  acted |-> IF CloseReleases(session, session_owner)
                            THEN session ELSE NoSession,
                  afterClose |-> close_called,
                  afterRelease |-> released]
    /\ UNCHANGED <<ctor, supplied, owner_arg, block_size, supplied_auto,
                   connection_config, init_kwargs, response, reader>>
    /\ UNCHANGED otherVars


(***************************************************************************)
(* Responses: what the backend serves for one request.                     *)
(***************************************************************************)
Byte == 0..2
RECURSIVE SeqsUpTo(_)
SeqsUpTo(n) ==
    IF n = 0 THEN {<<>>}
    ELSE LET shorter == SeqsUpTo(n - 1)
         IN  shorter \cup {Append(b, x) : b \in {c \in shorter : Len(c) = n - 1}, x \in Byte}
Bodies == SeqsUpTo(MaxBodyLen)

NoHeader == ""
Encodings == {NoHeader, "gzip", "GZip", "deflate", "br"}
NoLength == -1
\* A Content-Length header is absent, states the body's length, or states more
\* than the backend delivers before the connection drops.
LengthHeaders(body) == {NoLength, Len(body), Len(body) + 1}

Unread == "unread"

\* RestAioHttpTransportResponse(request, internal_response, block_size, decompress).
NewResponse(body, enc, clen, bs, decompress) ==
    [exists |-> TRUE, is_closed |-> FALSE, wire |-> body, eof |-> FALSE,
     enc |-> enc, clen |-> clen, content |-> Unread, consumed |-> 0,
     block_size |-> bs, decompress |-> decompress]

\* session.auto_decompress (line 189): open() builds its sessions with
\* auto_decompress False (line 114); a supplied session has its own setting.
AutoDecompress(sess) == IF sess = supplied /\ sess # NoSession THEN supplied_auto ELSE FALSE

(***************************************************************************)
(* handle_no_stream_rest_response: read() then close(); when read() raises *)
(* an Exception, close() and raise the same exception; what read() raises  *)
(* that is no Exception passes the except clause by.  rd is what read()    *)
(* does: "ok" or the exception it raises.                                  *)
(***************************************************************************)
handle_non_stream_rest_response(resp, rd) ==
    IF rd = "ok"
    THEN [response |-> [resp EXCEPT !.content = resp.wire, !.wire = <<>>,
                                    !.consumed = Len(resp.wire), !.eof = TRUE, !.is_closed = TRUE],
          exc |-> NoExc]
    ELSE IF IsInstance(rd, "Exception")
    THEN [response |-> [resp EXCEPT !.is_closed = TRUE], exc |-> rd]
    ELSE [response |-> resp, exc |-> rd]

(***************************************************************************)
(* AioHttpTransport.send                                                   *)
(***************************************************************************)
\* The except chain of send with the ClientError clause first.
SendHandlers_clientErrorFirst ==
    << Clause("ClientError", FALSE, "ServiceRequestError", TRUE),
       Clause("ClientResponseError", FALSE, "ServiceResponseError", TRUE),
       Clause("TimeoutError", FALSE, "ServiceResponseError", TRUE) >>

\* Lines 238-243, in order.
SendHandlers ==
    << Clause("ClientResponseError", FALSE, "ServiceResponseError", TRUE),
       Clause("TimeoutError", FALSE, "ServiceResponseError", TRUE),
       Clause("ClientError", FALSE, "ServiceRequestError", TRUE) >>

(***************************************************************************)
(* Strings are sequences of characters.  str.startswith, the order of      *)
(* str (by code point, a proper prefix first) and sorted().                *)
(***************************************************************************)
startswith(str, prefix) ==
    Len(prefix) <= Len(str) /\ SubSeq(str, 1, Len(prefix)) = prefix

ord(c) == CASE c = "h" -> 104 [] c = "s" -> 115 [] OTHER -> 0

RECURSIVE StrLess(_, _)
StrLess(a, b) ==
    IF a = <<>> THEN b # <<>>
    ELSE IF b = <<>> THEN FALSE
    ELSE IF Head(a) = Head(b) THEN StrLess(Tail(a), Tail(b))
    ELSE ord(Head(a)) < ord(Head(b))

\* sorted() that ignores reverse=True.
RECURSIVE sorted_ascendingOnly(_, _)
sorted_ascendingOnly(strs, reverse) ==
    IF strs = {} THEN <<>>
    ELSE LET m == CHOOSE x \in strs : \A y \in strs \ {x} : StrLess(x, y)
         IN  <<m>> \o sorted_ascendingOnly(strs \ {m}, reverse)

\* sorted(strs, reverse=reverse)
RECURSIVE sorted(_, _)
sorted(strs, reverse) ==
    IF strs = {} THEN <<>>
    ELSE LET m == CHOOSE x \in strs : \A y \in strs \ {x} :
                      IF reverse THEN StrLess(y, x) ELSE StrLess(x, y)
         IN  <<m>> \o sorted(strs \ {m}, reverse)

\* No proxy argument reaches session.request.
NoProxy == <<>>

\* A dict without some of its keys.
Without(config, keys) == [k \in DOMAIN config \ keys |-> config[k]]

(***************************************************************************)
(* Lines 194-202: config after the proxies mapping is popped and, when it  *)
(* is not empty and no "proxy" is given, the first protocol of the sorted  *)
(* keys that the request URL starts with has set config["proxy"].          *)
(***************************************************************************)
SelectProxy(config, url) ==
    LET rest == Without(config, {"proxies"})
    IN  IF "proxies" \in DOMAIN config /\ DOMAIN config["proxies"] # {}
           /\ "proxy" \notin DOMAIN config
        THEN LET proxies == config["proxies"]
                 order == sorted(DOMAIN proxies, TRUE)
                 hit == {i \in 1..Len(order) : startswith(url, order[i])}
             IN  IF hit = {} THEN rest
                 ELSE rest @@ ("proxy" :> proxies[order[CHOOSE i \in hit :
                                                           \A j \in hit : i <= j]])
        ELSE rest

\* _build_ssl_config (lines 130-150): an SSLContext when a client certificate
\* or a CA file is given, else the verify flag itself.
build_ssl_config(cert, verify) ==
    IF cert # "None" \/ verify \notin {"True", "False"}
    THEN [kind |-> "SSLContext", verify |-> "True",
          cafile |-> IF verify \notin {"True", "False"} THEN verify ELSE "None",
          cert_chain |-> cert]
    ELSE [kind |-> "bool", verify |-> verify, cafile |-> "None", cert_chain |-> "None"]

\* The per-call keywords that stand in for a value of self.connection_config.
OverrideKeys == {"connection_cert", "connection_verify", "connection_timeout",
                 "read_timeout"}

\* A send that stores the overrides it popped in self.connection_config.
connection_config_after_send_storing(cc, config) ==
    [cc EXCEPT !.cert = pop(config, "connection_cert", cc.cert),
               !.verify = pop(config, "connection_verify", cc.verify),
               !.timeout = pop(config, "connection_timeout", cc.timeout),
               !.read_timeout = pop(config, "read_timeout", cc.read_timeout)]

\* Lines 206, 207, 216, 217 and 232 read self.connection_config; no line of
\* send assigns it or one of its attributes.
connection_config_after_send(cc, config) == cc

\* A send that buffers every response.
ShouldBuffer_always(stream_response) == TRUE

\* Line 235: `if not stream_response`.
ShouldBuffer(stream_response) == ~stream_response

\* Lines 205-227: what send passes to session.request.
RequestArguments(request, config) ==
    LET c == SelectProxy(config, request.url)
    IN  [url |-> request.url,
         proxy |-> pop(c, "proxy", NoProxy),
         ssl |-> build_ssl_config(pop(c, "connection_cert", connection_config.cert),
                                  pop(c, "connection_verify", connection_config.verify)),
         skip_auto_headers |-> ~request.has_body,
         stream_response |-> pop(c, "stream", FALSE),
         sock_connect |-> pop(c, "connection_timeout", connection_config.timeout),
         sock_read |-> pop(c, "read_timeout", connection_config.read_timeout)]

\* req is what `await self.session.request(...)` does: "ok" or the exception it
\* raises; rd is what the body read of a non-streamed send does.
send(request, config, req, body, enc, clen, rd) ==
    /\ ctor = "ok"
    /\ LET o == OpenOutcome(session, session_owner)
           args == RequestArguments(request, config)
           stream == args.stream_response
           base == [op |-> "send", stream |-> stream, allocated |-> o.allocated,
                    dispatchedOn |-> NoSession, sessionLive |-> FALSE,
                    raised |-> NoExc, bodyRead |-> FALSE, body |-> body,
                    config |-> config, args |-> args,
                    afterOverrides |->
                        /\ lastOp.op = "send"
                        /\ \/ lastOp.afterOverrides
                           \/ DOMAIN lastOp.config \cap OverrideKeys # {}]
       IN  IF o.exc # NoExc
           THEN \* `await self.open()` (line 187) raises outside the try block
                /\ lastOp' = [base EXCEPT !.raised = o.exc] @@
                             [stage |-> "open", exc |-> o.exc, cause |-> NoExc]
                /\ response' = NoResponse
                /\ UNCHANGED <<session, liveSessions>>
           ELSE /\ session' = o.session
                /\ liveSessions' = IF o.allocated = NoSession THEN liveSessions
                                   ELSE liveSessions \cup {o.allocated}
                /\ LET live == o.session \in liveSessions'
                       sent == [base EXCEPT !.dispatchedOn = o.session,
                                            !.sessionLive = live]
                       resp == NewResponse(body, enc, clen, block_size,
                                           ~AutoDecompress(o.session))
                   IN  IF req # "ok"
                       THEN LET h == RunHandlers(SendHandlers, req)
                            IN  /\ lastOp' = [sent EXCEPT !.raised = req] @@
                                             [stage |-> "request", exc |-> h.exc,
                                              cause |-> h.cause]
                                /\ response' = NoResponse
                       ELSE IF ~ShouldBuffer(stream)
                       THEN /\ lastOp' = sent @@ [stage |-> "done", exc |-> NoExc,
                                                  cause |-> NoExc]
                            /\ response' = resp
                       ELSE LET r == handle_non_stream_rest_response(resp, rd)
                                h == RunHandlers(SendHandlers, r.exc)
                            IN  /\ response' = r.response
                                /\ lastOp' =
                                     IF r.exc = NoExc
                                     THEN [sent EXCEPT !.bodyRead = TRUE] @@
                                          [stage |-> "done", exc |-> NoExc,
                                           cause |-> NoExc]
                                     ELSE [sent EXCEPT !.raised = r.exc] @@
                                          [stage |-> "read", exc |-> h.exc,
                                           cause |-> h.cause]
    /\ connection_config' = connection_config_after_send(connection_config, config)
    /\ UNCHANGED <<ctor, supplied, owner_arg, session_owner, block_size, init_kwargs,
                   closedSessions, released, close_called, supplied_auto, reader>>
    /\ UNCHANGED otherVars

(***************************************************************************)
(* The transport: one constructor call, then any sequence of open, close   *)
(* and send calls.                                                         *)
(***************************************************************************)
Init ==
    /\ ctor = "none"
    /\ supplied = NoSession
    /\ owner_arg = TRUE
    /\ session = NoSession
    /\ session_owner = TRUE
    /\ block_size = 1
    /\ connection_config = ConnectionConfiguration(NoKwargs)
    /\ init_kwargs = NoKwargs
    /\ liveSessions = {}
    /\ closedSessions = {}
    /\ released = FALSE
    /\ close_called = FALSE
    /\ supplied_auto = FALSE
    /\ response = NoResponse
    /\ reader = NoReader
    /\ lastOp = [op |-> "none"]
    /\ tasks = <<>>
    /\ fmt = [pc |-> "idle"]
    /\ joined = [pc |-> "idle"]
    /\ client = [pc |-> "idle"]
    /\ batch = [pc |-> "idle"]
    /\ http_request = [pc |-> "idle"]

ConstructCall ==
    \E s \in {NoSession, SuppliedSession}, owner \in BOOLEAN, loop \in BOOLEAN,
       py310 \in BOOLEAN, bs \in 1..MaxBlockSize, auto \in BOOLEAN :
        /\ (s = NoSession => ~auto)
        /\ Construct(s, owner, loop, py310, "connection_data_block_size" :> bs, auto)

\* The request of the sends below: a URL and no body.
PlainRequest == [url |-> <<"h">>, has_body |-> FALSE]

\* The bodies served to send calls; the headers state the body as it is.
SendBodies == SeqsUpTo(MaxSendBodyLen)

\* A send whose request the backend fails builds no response; only a send that
\* is not streamed reads the body.
SendFailing ==
    \E stream \in BOOLEAN, req \in BackendExceptions :
        send(PlainRequest, "stream" :> stream, req, <<>>, NoHeader, NoLength, "ok")

SendStreamed ==
    \E body \in SendBodies :
        send(PlainRequest, "stream" :> TRUE, "ok", body, NoHeader, Len(body), "ok")

SendBuffered ==
    \E body \in SendBodies, rd \in {"ok"} \cup BackendExceptions,
       config \in Optional("stream", {FALSE}) :
        send(PlainRequest, config, "ok", body, NoHeader, Len(body), rd)

Next == ConstructCall \/ open \/ close \/ SendFailing \/ SendStreamed \/ SendBuffered

Spec == Init /\ [][Next]_vars


(***************************************************************************)
(* zlib.decompressobj, as far as the reader depends on it: a decompressor   *)
(* is fed the compressed stream piece by piece, keeps what is left of an   *)
(* incomplete code between calls, and raises zlib.error on a byte that     *)
(* cannot start a code.  A code is a run length (1 or 2) and then the byte *)
(* to repeat; a gzip stream starts with one header byte, a raw deflate     *)
(* stream has none.                                                        *)
(***************************************************************************)
GzipHeader == <<0>>
Repeat(n, v) == [i \in 1..n |-> v]

\* Line 297: (16 + zlib.MAX_WBITS) for gzip, else -zlib.MAX_WBITS.
zlib_mode(enc) == IF enc = "gzip" THEN 16 + 15 ELSE 0 - 15

decompressobj(wbits) == [wbits |-> wbits, header |-> wbits > 16, pending |-> <<>>]

RECURSIVE decompress(_, _, _)
decompress(d, chunk, out) ==
    IF chunk = <<>> THEN [decompressor |-> d, out |-> out, error |-> FALSE]
    ELSE LET b == Head(chunk)
         IN  IF d.header
             THEN IF b = GzipHeader[1]
                  THEN decompress([d EXCEPT !.header = FALSE], Tail(chunk), out)
                  ELSE [decompressor |-> d, out |-> out, error |-> TRUE]
             ELSE IF d.pending = <<>>
             THEN IF b = 0
                  THEN [decompressor |-> d, out |-> out, error |-> TRUE]
                  ELSE decompress([d EXCEPT !.pending = <<b>>], Tail(chunk), out)
             ELSE decompress([d EXCEPT !.pending = <<>>], Tail(chunk),
                             out \o Repeat(d.pending[1], b))

\* str.lower() on the header values served.
Lower(enc) == IF enc = "GZip" THEN "gzip" ELSE enc

(***************************************************************************)
(* The backend stream: `await content.read(block_size)`.  A read that finds *)
(* bytes returns between one and block_size of them; at the end of a body  *)
(* that is complete it returns no bytes, and keeps doing so; before that   *)
(* it may raise.  A body shorter than its Content-Length is a connection   *)
(* that broke: the read at its end raises.                                 *)
(***************************************************************************)
Min(a, b) == IF a < b THEN a ELSE b
Data(chunk) == [kind |-> "data", chunk |-> chunk, exc |-> NoExc]
Failure(e) == [kind |-> "exc", chunk |-> <<>>, exc |-> e]
Truncated(resp) == resp.clen > Len(resp.wire) + resp.consumed

ReadOutcomes(resp, bs) ==
    IF resp.eof THEN {Data(<<>>)}
    ELSE IF resp.wire # <<>>
    THEN {Data(SubSeq(resp.wire, 1, k)) : k \in 1..Min(bs, Len(resp.wire))}
         \cup {Failure(e) : e \in BackendExceptions}
    ELSE IF Truncated(resp) THEN {Failure(e) : e \in BackendExceptions}
    ELSE {Data(<<>>)}
         \cup (IF resp.clen = NoLength THEN {Failure(e) : e \in BackendExceptions}
               ELSE {})

\* The stream after a read returned rd.
AfterRead(resp, rd) ==
    IF rd.kind = "exc" THEN resp
    ELSE IF rd.chunk = <<>> THEN [resp EXCEPT !.eof = TRUE]
    ELSE [resp EXCEPT !.wire = SubSeq(resp.wire, Len(rd.chunk) + 1, Len(resp.wire)),
                      !.consumed = resp.consumed + Len(rd.chunk)]

\* response.close() of the rest response.
ResponseClose(resp) == [resp EXCEPT !.is_closed = TRUE]

(***************************************************************************)
(* AioHttpStreamDownloadGenerator                                          *)
(***************************************************************************)
NoDecompressor == [absent |-> TRUE]

\* __init__ making the decompressor itself (line 273 with lines 297-298).
StreamDownloadGenerator_eager(resp, decomp) ==
    [exists |-> TRUE,
     block_size |-> resp.block_size,
     decompress |-> decomp,
     content_length |-> IF resp.clen = NoLength THEN 0 ELSE resp.clen,
     decompressor |-> IF Lower(resp.enc) \in {"gzip", "deflate"}
                      THEN decompressobj(zlib_mode(Lower(resp.enc)))
                      ELSE NoDecompressor,
     pulled |-> FALSE, exhausted |-> FALSE, out |-> <<>>]

\* __init__, lines 265-273.
StreamDownloadGenerator(resp, decomp) ==
    [exists |-> TRUE,
     block_size |-> resp.block_size,
     decompress |-> decomp,
     content_length |-> IF resp.clen = NoLength THEN 0 ELSE resp.clen,
     decompressor |-> NoDecompressor,
     pulled |-> FALSE, exhausted |-> FALSE, out |-> <<>>]

\* The end-of-stream test with its sense inverted.
IsEndOfStream_inverted(chunk) == chunk # <<>>

\* Line 285: `if not chunk`.
IsEndOfStream(chunk) == chunk = <<>>

Returns(chunk, d) == [kind |-> "return", chunk |-> chunk, exc |-> NoExc, decompressor |-> d]
Raises(e, d) == [kind |-> "raise", chunk |-> <<>>, exc |-> e, decompressor |-> d]

\* The try block of __anext__ testing for the end of the stream after
\* decompression instead of before it (line 285 after line 299).
anext_try_emptyOutputEnds(rdr, resp, rd) ==
    IF rd.kind = "exc" THEN Raises(rd.exc, rdr.decompressor)
    ELSE IF ~rdr.decompress THEN
        IF IsEndOfStream(rd.chunk) THEN Raises("_ResponseStopIteration", rdr.decompressor)
        ELSE Returns(rd.chunk, rdr.decompressor)
    ELSE IF resp.enc = NoHeader \/ Lower(resp.enc) \notin {"gzip", "deflate"} THEN
        IF IsEndOfStream(rd.chunk) THEN Raises("_ResponseStopIteration", rdr.decompressor)
        ELSE Returns(rd.chunk, rdr.decompressor)
    ELSE LET d == IF rdr.decompressor = NoDecompressor
                  THEN decompressobj(zlib_mode(Lower(resp.enc)))
                  ELSE rdr.decompressor
             r == decompress(d, rd.chunk, <<>>)
         IN  IF r.error THEN Raises("ZlibError", d)
             ELSE IF IsEndOfStream(r.out)
             THEN Raises("_ResponseStopIteration", r.decompressor)
             ELSE Returns(r.out, r.decompressor)

\* The try block of __anext__ making a decompressor for every chunk
\* (line 294 without its test).
anext_try_decompressorPerChunk(rdr, resp, rd) ==
    IF rd.kind = "exc" THEN Raises(rd.exc, rdr.decompressor)
    ELSE IF IsEndOfStream(rd.chunk) THEN Raises("_ResponseStopIteration", rdr.decompressor)
    ELSE IF ~rdr.decompress THEN Returns(rd.chunk, rdr.decompressor)
    ELSE IF resp.enc = NoHeader THEN Returns(rd.chunk, rdr.decompressor)
    ELSE IF Lower(resp.enc) \in {"gzip", "deflate"}
    THEN LET d == decompressobj(zlib_mode(Lower(resp.enc)))
             r == decompress(d, rd.chunk, <<>>)
         IN  IF r.error THEN Raises("ZlibError", d)
             ELSE Returns(r.out, r.decompressor)
    ELSE Returns(rd.chunk, rdr.decompressor)

\* The try block of __anext__, lines 282-300, given what the read did.
anext_try(rdr, resp, rd) ==
    IF rd.kind = "exc" THEN Raises(rd.exc, rdr.decompressor)
    ELSE IF IsEndOfStream(rd.chunk) THEN Raises("_ResponseStopIteration", rdr.decompressor)
    ELSE IF ~rdr.decompress THEN Returns(rd.chunk, rdr.decompressor)
    ELSE IF resp.enc = NoHeader THEN Returns(rd.chunk, rdr.decompressor)
    ELSE IF Lower(resp.enc) \in {"gzip", "deflate"}
    THEN LET d == IF rdr.decompressor = NoDecompressor
                  THEN decompressobj(zlib_mode(Lower(resp.enc)))
                  ELSE rdr.decompressor
             r == decompress(d, rd.chunk, <<>>)
         IN  IF r.error THEN Raises("ZlibError", d)
             ELSE Returns(r.out, r.decompressor)
    ELSE Returns(rd.chunk, rdr.decompressor)

\* The except chain of __anext__ whose end-of-stream clause leaves the response open.
ReaderHandlers_stopLeavesOpen ==
    << Clause("_ResponseStopIteration", FALSE, "StopAsyncIteration", FALSE),
       Clause("ClientPayloadError", TRUE, "IncompleteReadError", TRUE),
       Clause("ClientResponseError", FALSE, "ServiceResponseError", TRUE),
       Clause("TimeoutError", FALSE, "ServiceResponseError", TRUE),
       Clause("ClientError", FALSE, "ServiceRequestError", TRUE),
       Clause("Exception", TRUE, "reraise", FALSE) >>

\* The except chain of __anext__ with the ClientPayloadError clause after ClientError.
ReaderHandlers_payloadLate ==
    << Clause("_ResponseStopIteration", TRUE, "StopAsyncIteration", FALSE),
       Clause("ClientResponseError", FALSE, "ServiceResponseError", TRUE),
       Clause("TimeoutError", FALSE, "ServiceResponseError", TRUE),
       Clause("ClientError", FALSE, "ServiceRequestError", TRUE),
       Clause("ClientPayloadError", TRUE, "IncompleteReadError", TRUE),
       Clause("Exception", TRUE, "reraise", FALSE) >>

\* The except chain of __anext__ without its last clause.
ReaderHandlers_noCatchAll ==
    << Clause("_ResponseStopIteration", TRUE, "StopAsyncIteration", FALSE),
       Clause("ClientPayloadError", TRUE, "IncompleteReadError", TRUE),
       Clause("ClientResponseError", FALSE, "ServiceResponseError", TRUE),
       Clause("TimeoutError", FALSE, "ServiceResponseError", TRUE),
       Clause("ClientError", FALSE, "ServiceRequestError", TRUE) >>

\* Lines 301-319, in order.
ReaderHandlers ==
    << Clause("_ResponseStopIteration", TRUE, "StopAsyncIteration", FALSE),
       Clause("ClientPayloadError", TRUE, "IncompleteReadError", TRUE),
       Clause("ClientResponseError", FALSE, "ServiceResponseError", TRUE),
       Clause("TimeoutError", FALSE, "ServiceResponseError", TRUE),
       Clause("ClientError", FALSE, "ServiceRequestError", TRUE),
       Clause("Exception", TRUE, "reraise", FALSE) >>

\* A reader is made for the response a streamed send returned
\* (decompress=True by iter_bytes, decompress=False by iter_raw).
StreamDownload(decomp) ==
    /\ response.exists
    /\ response.content = Unread
    /\ ~reader.exists
    /\ reader' = StreamDownloadGenerator(response, decomp)
    /\ lastOp' = [op |-> "iter", decompress |-> decomp]
    /\ UNCHANGED <<transportVars, response>>
    /\ UNCHANGED otherVars

\* One pull: __anext__, lines 278-319.
anext(rd) ==
    /\ reader.exists
    /\ LET t == anext_try(reader, response, rd)
           h == IF t.kind = "raise" THEN RunHandlers(ReaderHandlers, t.exc)
                ELSE [exc |-> NoExc, cause |-> NoExc, closes |-> FALSE]
           read == AfterRead(response, rd)
       IN  /\ response' = IF h.closes THEN ResponseClose(read) ELSE read
           /\ reader' = [reader EXCEPT
                            !.decompressor = t.decompressor,
                            !.pulled = TRUE,
                            !.exhausted = reader.exhausted \/ h.exc = "StopAsyncIteration",
                            !.out = IF t.kind = "return" THEN reader.out \o t.chunk
                                    ELSE reader.out]
           /\ lastOp' = [op |-> "pull",
                         first |-> ~reader.pulled,
                         afterExhausted |-> reader.exhausted,
                         wasClosed |-> response.is_closed,
                         read |-> IF rd.kind = "exc" THEN rd.exc ELSE "data",
                         raw |-> rd.chunk,
                         raised |-> t.exc,
                         kind |-> t.kind,
                         chunk |-> t.chunk,
                         exc |-> h.exc,
                         cause |-> h.cause]
    /\ UNCHANGED transportVars
    /\ UNCHANGED otherVars

Pull ==
    /\ reader.exists
    /\ \E rd \in ReadOutcomes(response, reader.block_size) : anext(rd)

IterCall == \E decomp \in BOOLEAN : StreamDownload(decomp)

(***************************************************************************)
(* The streaming reader: a transport that owns its session has returned a  *)
(* response from a streamed send; a reader is made for it and pulled.      *)
(***************************************************************************)
InitReader ==
    /\ ctor = "ok"
    /\ supplied = NoSession
    /\ owner_arg = TRUE
    /\ session = SuppliedSession + 1
    /\ session_owner = TRUE
    /\ block_size \in 1..MaxBlockSize
    /\ init_kwargs = ("connection_data_block_size" :> block_size)
    /\ connection_config = ConnectionConfiguration(init_kwargs)
    /\ liveSessions = {session}
    /\ closedSessions = {}
    /\ released = FALSE
    /\ close_called = FALSE
    /\ supplied_auto = FALSE
    /\ \E body \in Bodies, enc \in Encodings :
         \E clen \in LengthHeaders(body) :
            response = NewResponse(body, enc, clen, block_size, TRUE)
    /\ reader = NoReader
    /\ lastOp = [op |-> "send", stream |-> TRUE, allocated |-> NoSession,
                 dispatchedOn |-> session, sessionLive |-> TRUE, raised |-> NoExc,
                 bodyRead |-> FALSE, stage |-> "done", exc |-> NoExc, cause |-> NoExc]
    /\ tasks = <<>>
    /\ fmt = [pc |-> "idle"]
    /\ joined = [pc |-> "idle"]
    /\ client = [pc |-> "idle"]
    /\ batch = [pc |-> "idle"]
    /\ http_request = [pc |-> "idle"]

NextReader == IterCall \/ Pull

SpecReader == InitReader /\ [][NextReader]_vars

(***************************************************************************)
(* Properties of the transport.                                            *)
(***************************************************************************)
TaxonomyOfSend(e) ==
    IF IsInstance(e, "ClientResponseError") \/ IsTimeout(e)
    THEN "ServiceResponseError" ELSE "ServiceRequestError"

\* C1: a backend exception raised while send dispatches the request or buffers
\* the body leaves send as ServiceResponseError (a ClientResponseError or a
\* timeout) or as ServiceRequestError (any other ClientError), with the original
\* exception as its cause; no backend exception type leaves send.
C1_SendRewrapsBackendExceptions ==
    (lastOp.op = "send" /\ lastOp.raised \in BackendExceptions) =>
        /\ lastOp.stage \in {"request", "read"}
        /\ lastOp.exc = TaxonomyOfSend(lastOp.raised)
        /\ lastOp.cause = lastOp.raised
        /\ lastOp.exc \notin BackendExceptions

\* A timeout of the backend that is also a ClientError, raised by the body read.
C1_Witness ==
    /\ lastOp.op = "send"
    /\ lastOp.stage = "read"
    /\ lastOp.raised = "ServerTimeoutError"
    /\ lastOp.exc = "ServiceResponseError"

NonOwnedSessionKept ==
    (ctor = "ok" /\ ~owner_arg) =>
        /\ session = supplied
        /\ supplied \in liveSessions
        /\ closedSessions = {}

\* C7 as stated: close() releases the session only if the transport owns it, a
\* session supplied with session_owner=False is never closed or dropped, and
\* after a first close() every further close() acts on no session.
C7_NoCloseActsAfterFirstClose ==
    /\ NonOwnedSessionKept
    /\ lastOp.op = "close" =>
        /\ (lastOp.acted # NoSession => owner_arg)
        /\ (lastOp.afterClose => lastOp.acted = NoSession)

\* C7 amended: close() releases the session only if the transport owns it, a
\* session supplied with session_owner=False is never closed or dropped, and
\* after a close() that released the session every further close() acts on no
\* session.
C7_NoCloseActsAfterRelease ==
    /\ NonOwnedSessionKept
    /\ lastOp.op = "close" =>
        /\ (lastOp.acted # NoSession => owner_arg)
        /\ (lastOp.afterRelease => lastOp.acted = NoSession)
        /\ (lastOp.acted # NoSession => lastOp.acted \in closedSessions /\ session = NoSession)

\* A close() after the close() that released the owned session.
C7_Witness ==
    /\ lastOp.op = "close"
    /\ lastOp.afterRelease
    /\ lastOp.acted = NoSession
    /\ owner_arg
    /\ closedSessions # {}

\* C8: when send on an owned transport dispatches the request, the transport
\* holds a live session, whatever open and close calls came before: send opens
\* a transport that is not open.
C8_SendOpensImplicitly ==
    (lastOp.op = "send" /\ owner_arg) =>
        /\ lastOp.dispatchedOn # NoSession
        /\ lastOp.sessionLive

\* C9: open() allocates a session exactly when the transport holds none and owns
\* its session; it never replaces a session already held, and never allocates
\* for a transport bound to an external session.
C9_OpenIdempotent ==
    lastOp.op = "open" =>
        /\ (lastOp.allocated # NoSession) <=> (lastOp.held = NoSession /\ session_owner)
        /\ (lastOp.held # NoSession => session = lastOp.held)
        /\ (lastOp.allocated # NoSession => session = lastOp.allocated)
        /\ (~owner_arg => lastOp.allocated = NoSession /\ session = supplied)
        /\ Cardinality(liveSessions \cup closedSessions) <= 1

\* open() called again on the session an earlier open() allocated.
C9_Witness ==
    /\ lastOp.op = "open"
    /\ lastOp.held # NoSession
    /\ lastOp.held # supplied
    /\ session = lastOp.held
    /\ lastOp.allocated = NoSession

\* C10: the constructor raises ValueError when session_owner is False and no
\* session is given, and then no transport exists to open or send on; every
\* other combination of session and session_owner constructs (no loop argument
\* being rejected).
C10_ConstructorRejectsMissingSession ==
    /\ lastOp.op = "ctor" =>
        /\ (~lastOp.session_owner /\ lastOp.session = NoSession) =>
               (lastOp.exc = "ValueError" /\ ctor = "ValueError")
        /\ (~(~lastOp.session_owner /\ lastOp.session = NoSession)
              /\ ~LoopRejected(lastOp.loop, lastOp.py310)) =>
               (lastOp.exc = NoExc /\ ctor = "ok" /\ session = lastOp.session
                /\ session_owner = lastOp.session_owner)
    /\ ctor = "ValueError" =>
        (lastOp.op = "ctor" /\ liveSessions = {} /\ response = NoResponse)

\* The rejected combination has been tried.
C10_Witness ==
    /\ lastOp.op = "ctor"
    /\ ~lastOp.session_owner
    /\ lastOp.session = NoSession
    /\ ~lastOp.loop
    /\ ctor = "ValueError"


(***************************************************************************)
(* Properties of the streaming reader.                                     *)
(***************************************************************************)
\* C2: a pull that fails with a backend transport failure other than payload
\* truncation closes the response and fails with ServiceResponseError or
\* ServiceRequestError, and the response is closed after every pull that raises.
C2_FailedPullClosesResponse ==
    lastOp.op = "pull" =>
        /\ (lastOp.read \in BackendExceptions \ {"ClientPayloadError"} =>
               /\ response.is_closed
               /\ lastOp.exc \in {"ServiceResponseError", "ServiceRequestError"})
        /\ (lastOp.kind = "raise" => response.is_closed)

\* C3: a pull whose read returns no bytes closes the response and raises
\* StopAsyncIteration, yielding no chunk; for a response with Content-Length 0
\* and no body that is the first pull.
C3_EndOfStreamExhausts ==
    lastOp.op = "pull" =>
        /\ (lastOp.read = "data" /\ lastOp.raw = <<>>) =>
               /\ lastOp.kind = "raise"
               /\ lastOp.exc = "StopAsyncIteration"
               /\ response.is_closed
               /\ reader.exhausted
        /\ (lastOp.first /\ response.clen = 0) =>
               /\ lastOp.exc = "StopAsyncIteration"
               /\ reader.out = <<>>

\* The first pull on a response with Content-Length 0 and no body.
C3_Witness ==
    /\ lastOp.op = "pull"
    /\ lastOp.first
    /\ response.clen = 0
    /\ reader.content_length = 0
    /\ lastOp.exc = "StopAsyncIteration"
    /\ response.is_closed

\* C4: a pull whose read raises ClientPayloadError closes the response and
\* raises IncompleteReadError with that exception as its cause.
C4_TruncationIsIncompleteRead ==
    (lastOp.op = "pull" /\ lastOp.read = "ClientPayloadError") =>
        /\ response.is_closed
        /\ lastOp.exc = "IncompleteReadError"
        /\ lastOp.cause = "ClientPayloadError"
        /\ lastOp.exc \notin {"ServiceRequestError", "ServiceResponseError"}

\* The connection broke at the end of a body shorter than its Content-Length.
C4_Witness ==
    /\ lastOp.op = "pull"
    /\ lastOp.read = "ClientPayloadError"
    /\ response.wire = <<>>
    /\ response.clen > response.consumed
    /\ ~lastOp.wasClosed
    /\ response.is_closed
    /\ lastOp.exc = "IncompleteReadError"

IsBackendFailure(e) == IsInstance(e, "ClientError") \/ IsTimeout(e)

C12_OnlyBufferedSendReadsBody ==
    (lastOp.op = "send" /\ lastOp.stage = "done") =>
        /\ lastOp.stream = pop(lastOp.config, "stream", FALSE)
        /\ IF lastOp.stream
           THEN /\ ~lastOp.bodyRead
                /\ response.content = Unread
                /\ response.consumed = 0
                /\ response.wire = lastOp.body
                /\ ~response.eof
           ELSE /\ lastOp.bodyRead
                /\ response.content = lastOp.body
                /\ response.consumed = Len(lastOp.body)
                /\ response.wire = <<>>

\* A send without the stream keyword has returned a response whose body of one
\* byte is read.
C12_Witness ==
    /\ lastOp.op = "send" /\ lastOp.stage = "done"
    /\ "stream" \notin DOMAIN lastOp.config
    /\ lastOp.body # <<>>
    /\ lastOp.bodyRead


(***************************************************************************)
(* The transport under configuration: a constructor call with connection   *)
(* keywords, then sends that override some of them for the call.           *)
(***************************************************************************)
Merge4(as, bs, cs, ds) == {a @@ b @@ c @@ d : a \in as, b \in bs, c \in cs, d \in ds}

\* Keywords given to __init__ (line 92 hands them to ConnectionConfiguration).
ConstructorKeywords ==
    Merge4(Optional("connection_timeout", {5}),
           Optional("read_timeout", {7}),
           Optional("connection_verify", {"False", "ca.pem"}),
           Optional("connection_cert", {"client.pem"}))

\* Keywords given to send in place of the configured values.
CallOverrides ==
    Merge4(Optional("connection_timeout", {11}),
           Optional("read_timeout", {13}),
           Optional("connection_verify", {"False", "other-ca.pem"}),
           Optional("connection_cert", {"None", "other.pem"}))

ConstructConfigured ==
    \E kwargs \in ConstructorKeywords :
        Construct(NoSession, TRUE, FALSE, FALSE, kwargs, FALSE)

SendOverriding ==
    \E overrides \in CallOverrides :
        send(PlainRequest, overrides @@ ("stream" :> TRUE), "ok", <<>>,
             NoHeader, NoLength, "ok")

NextConfig == ConstructConfigured \/ SendOverriding

SpecConfig == Init /\ [][NextConfig]_vars

\* C13: the connection configuration of a constructed transport is the one
\* built from the constructor's keywords, whatever sends came before; each send
\* hands session.request the override given to that call for a value and the
\* constructed value for every value the call does not override.
C13_OverridesApplyToOneCall ==
    ctor = "ok" =>
        LET built == ConnectionConfiguration(init_kwargs)
        IN  /\ connection_config = built
            /\ lastOp.op = "send" =>
                 LET c == lastOp.config
                     a == lastOp.args
                     used(key, constructed) ==
                         IF key \in DOMAIN c THEN c[key] ELSE constructed
                 IN  /\ a.sock_connect = used("connection_timeout", built.timeout)
                     /\ a.sock_read = used("read_timeout", built.read_timeout)
                     /\ a.ssl = build_ssl_config(used("connection_cert", built.cert),
                                                 used("connection_verify", built.verify))

\* After a send that overrode all four values, a send without overrides ran
\* with the four values the constructor was given.
C13_Witness ==
    /\ ctor = "ok"
    /\ DOMAIN init_kwargs = OverrideKeys
    /\ lastOp.op = "send" /\ lastOp.stage = "done"
    /\ lastOp.afterOverrides
    /\ DOMAIN lastOp.config \cap OverrideKeys = {}
    /\ lastOp.args.sock_connect = 5
    /\ lastOp.args.sock_read = 7
    /\ lastOp.args.ssl.cert_chain = "client.pem"


(***************************************************************************)
(* The transport under proxies: a constructor call, then one send with a   *)
(* proxies mapping, a proxy override, both or neither.                     *)
(***************************************************************************)
RECURSIVE StrsUpTo(_, _)
StrsUpTo(chars, n) ==
    IF n = 0 THEN {<<>>}
    ELSE LET shorter == StrsUpTo(chars, n - 1)
         IN  shorter \cup {Append(b, x) : b \in {c \in shorter : Len(c) = n - 1},
                                          x \in chars}

SchemeChars == {"h", "s"}
ProtocolKeys == StrsUpTo(SchemeChars, MaxKeyLen)
RequestUrls == StrsUpTo(SchemeChars, MaxUrlLen)

\* proxies: protocol -> proxy URL; each protocol has a proxy URL of its own.
ProxiesMappings ==
    {[k \in K |-> <<"p">> \o k] :
        K \in {S \in SUBSET ProtocolKeys : Cardinality(S) <= MaxProxies}}

ConstructPlain == Construct(NoSession, TRUE, FALSE, FALSE, NoKwargs, FALSE)

SendViaProxy ==
    /\ lastOp.op = "ctor"
    /\ \E url \in RequestUrls, proxies \in Optional("proxies", ProxiesMappings),
          proxy \in Optional("proxy", {<<"o">>}) :
          send([url |-> url, has_body |-> FALSE],
               proxies @@ proxy @@ ("stream" :> TRUE), "ok", <<>>,
               NoHeader, NoLength, "ok")

NextProxy == ConstructPlain \/ SendViaProxy

SpecProxy == Init /\ [][NextProxy]_vars

\* C14: the proxy a send hands to session.request is the proxy override when
\* one is given; else, of the protocol keys of the proxies mapping that the
\* request URL starts with, the proxy of the longest; and none when no
\* mapping is given or no key matches.
C14_LongestMatchingProxy ==
    (lastOp.op = "send" /\ lastOp.stage = "done") =>
        LET c == lastOp.config
            chosen == lastOp.args.proxy
        IN  IF "proxy" \in DOMAIN c THEN chosen = c["proxy"]
            ELSE IF "proxies" \notin DOMAIN c THEN chosen = NoProxy
            ELSE LET matching == {k \in DOMAIN c["proxies"] :
                                      startswith(lastOp.args.url, k)}
                 IN  IF matching = {} THEN chosen = NoProxy
                     ELSE \E k \in matching :
                             /\ \A j \in matching : Len(j) <= Len(k)
                             /\ chosen = c["proxies"][k]

\* Two keys, one a prefix of the other, both match the URL, and the send used
\* the proxy of the longer one.
C14_Witness ==
    /\ lastOp.op = "send" /\ lastOp.stage = "done"
    /\ "proxy" \notin DOMAIN lastOp.config
    /\ "proxies" \in DOMAIN lastOp.config
    /\ DOMAIN lastOp.config["proxies"] = {<<"h">>, <<"h", "s">>}
    /\ lastOp.args.url = <<"h", "s", "h">>
    /\ lastOp.args.proxy = <<"p", "h", "s">>


(***************************************************************************)
(* Concurrent sends.  The coroutines of one event loop run one at a time   *)
(* and change hands only at an await: a step below is the code of send     *)
(* from one await to the next.  A send is suspended, at most, in           *)
(* `await self.session.__aenter__()` (line 121, inside open), in           *)
(* `await self.session.request(...)` (line 219) and in the body read of    *)
(* line 236.                                                               *)
(***************************************************************************)
Tasks == 1..MaxTasks

NewTask == [pc |-> "start", stream |-> FALSE, allocated |-> NoSession,
            dispatchedOn |-> NoSession, exc |-> NoExc]

concurrencyFrame == <<ctor, supplied, owner_arg, session_owner, block_size,
                      connection_config, init_kwargs, closedSessions, released,
                      close_called, supplied_auto, response, reader, lastOp,
                      fmt, joined, client, batch, http_request>>

\* Line 187 up to the await of line 121: open() tests and assigns self.session
\* without an await in between.
SendEnter(t, stream) ==
    /\ tasks[t].pc = "start"
    /\ LET o == OpenOutcome(session, session_owner)
       IN  /\ session' = o.session
           /\ liveSessions' = IF o.allocated = NoSession THEN liveSessions
                              ELSE liveSessions \cup {o.allocated}
           /\ tasks' = [tasks EXCEPT ![t] =
                  [@ EXCEPT !.pc = IF o.exc # NoExc THEN "done" ELSE "entering",
                            !.stream = stream,
                            !.allocated = o.allocated,
                            !.exc = o.exc]]
    /\ UNCHANGED concurrencyFrame

\* Lines 188-227: open() has returned; `self.session.request` reads
\* self.session as it is now and the coroutine waits for the backend.
SendDispatch(t) ==
    /\ tasks[t].pc = "entering"
    /\ tasks' = [tasks EXCEPT ![t] =
           IF session = NoSession
           THEN [@ EXCEPT !.pc = "done", !.exc = "AttributeError"]
           ELSE [@ EXCEPT !.pc = "requesting", !.dispatchedOn = session]]
    /\ UNCHANGED <<session, liveSessions>>
    /\ UNCHANGED concurrencyFrame

\* Lines 219-236 and 238-243: the backend answers or fails; a response that is
\* not streamed goes on to the body read.
SendAnswered(t, req) ==
    /\ tasks[t].pc = "requesting"
    /\ tasks' = [tasks EXCEPT ![t] =
           IF req # "ok"
           THEN [@ EXCEPT !.pc = "done", !.exc = RunHandlers(SendHandlers, req).exc]
           ELSE IF ShouldBuffer(@.stream) THEN [@ EXCEPT !.pc = "reading"]
           ELSE [@ EXCEPT !.pc = "done"]]
    /\ UNCHANGED <<session, liveSessions>>
    /\ UNCHANGED concurrencyFrame

\* Line 236 and 238-244: the body read ends and send returns or raises.
SendRead(t, rd) ==
    /\ tasks[t].pc = "reading"
    /\ tasks' = [tasks EXCEPT ![t] =
           [@ EXCEPT !.pc = "done",
                     !.exc = IF rd = "ok" THEN NoExc
                             ELSE RunHandlers(SendHandlers, rd).exc]]
    /\ UNCHANGED <<session, liveSessions>>
    /\ UNCHANGED concurrencyFrame

Enter == \E t \in Tasks, stream \in BOOLEAN : SendEnter(t, stream)
Dispatch == \E t \in Tasks : SendDispatch(t)
Answered == \E t \in Tasks, req \in {"ok"} \cup BackendExceptions : SendAnswered(t, req)
Read == \E t \in Tasks, rd \in {"ok"} \cup BackendExceptions : SendRead(t, rd)

\* An owned transport that holds no session, and MaxTasks sends called on it.
InitConcurrent ==
    /\ ctor = "ok"
    /\ supplied = NoSession
    /\ owner_arg = TRUE
    /\ session = NoSession
    /\ session_owner = TRUE
    /\ block_size = 1
    /\ init_kwargs = ("connection_data_block_size" :> block_size)
    /\ connection_config = ConnectionConfiguration(init_kwargs)
    /\ liveSessions = {}
    /\ closedSessions = {}
    /\ released = FALSE
    /\ close_called = FALSE
    /\ supplied_auto = FALSE
    /\ response = NoResponse
    /\ reader = NoReader
    /\ lastOp = [op |-> "ctor", session |-> NoSession, session_owner |-> TRUE,
                 loop |-> FALSE, py310 |-> FALSE, exc |-> NoExc]
    /\ tasks = [t \in Tasks |-> NewTask]
    /\ fmt = [pc |-> "idle"]
    /\ joined = [pc |-> "idle"]
    /\ client = [pc |-> "idle"]
    /\ batch = [pc |-> "idle"]
    /\ http_request = [pc |-> "idle"]

NextConcurrent == Enter \/ Dispatch \/ Answered \/ Read

SpecConcurrent == InitConcurrent /\ [][NextConcurrent]_vars

\* The sends that have gone through open().
Entered == {t \in Tasks : tasks[t].pc # "start"}
\* The sends that have called session.request.
Dispatched == {t \in Tasks : tasks[t].dispatchedOn # NoSession}

\* C11: however the sends interleave, as soon as one of them is past open()
\* one session has been allocated in all, by one send; it is the session the
\* transport holds, and every request that has been dispatched went through it.
C11_ConcurrentSendsShareOneSession ==
    Entered # {} =>
        /\ Cardinality(liveSessions \cup closedSessions) = 1
        /\ Cardinality({t \in Tasks : tasks[t].allocated # NoSession}) = 1
        /\ session \in liveSessions
        /\ \A t \in Entered : tasks[t].pc # "entering" => t \in Dispatched
        /\ \A t \in Dispatched : tasks[t].dispatchedOn = session

\* All the sends are waiting for the backend at the same time, on one session
\* that not all of them allocated.
C11_Witness ==
    /\ \A t \in Tasks : tasks[t].pc = "requesting"
    /\ \E t \in Tasks : tasks[t].allocated = NoSession
    /\ \A t, u \in Tasks : tasks[t].dispatchedOn = tasks[u].dispatchedOn


(***************************************************************************)
(* _format_url_section (_base.py, lines 56-82).                            *)
(*                                                                         *)
(* str.split, str.join and `sub in str` on strings as sequences of         *)
(* characters.                                                             *)
(***************************************************************************)
RECURSIVE split(_, _)
split(str, sep) ==
    LET at == {i \in 1..Len(str) : str[i] = sep}
    IN  IF at = {} THEN <<str>>
        ELSE LET i == CHOOSE a \in at : \A b \in at : a <= b
             IN  <<SubSeq(str, 1, i - 1)>> \o split(SubSeq(str, i + 1, Len(str)), sep)

RECURSIVE join(_, _)
join(sep, parts) ==
    IF parts = <<>> THEN <<>>
    ELSE IF Len(parts) = 1 THEN parts[1]
    ELSE parts[1] \o <<sep>> \o join(sep, Tail(parts))

Contains(str, sub) ==
    \E i \in 1..(Len(str) - Len(sub) + 1) : SubSeq(str, i, i + Len(sub) - 1) = sub

\* "{{{}}}".format(key): the placeholder as it is written in a template.
Brace(key) == <<"{">> \o key \o <<"}">>

\* A lookup that finds no keyword.
getitem_neverFound(kwargs, name) == [found |-> FALSE, value |-> <<>>]

\* kwargs[name] inside str.format: the value, or KeyError(name).
getitem(kwargs, name) ==
    IF name \in DOMAIN kwargs THEN [found |-> TRUE, value |-> kwargs[name]]
    ELSE [found |-> FALSE, value |-> <<>>]

(***************************************************************************)
(* str.format with keywords, left to right: literal text is copied, "{{" and *)
(* "}}" give one brace, a lone brace is a ValueError, "{name}" is replaced *)
(* by kwargs[name] or raises KeyError(name), and a field without a name    *)
(* asks for a positional argument, of which there is none: IndexError.     *)
(***************************************************************************)
RECURSIVE vformat(_, _, _)
vformat(str, kwargs, out) ==
    LET Error(kind, key) == [kind |-> kind, out |-> <<>>, key |-> key]
    IN  IF str = <<>> THEN [kind |-> "ok", out |-> out, key |-> <<>>]
        ELSE IF Head(str) \notin {"{", "}"}
        THEN vformat(Tail(str), kwargs, Append(out, Head(str)))
        ELSE IF Len(str) >= 2 /\ str[2] = Head(str)
        THEN vformat(Tail(Tail(str)), kwargs, Append(out, Head(str)))
        ELSE IF Head(str) = "}" \/ Len(str) = 1
        THEN Error("ValueError", <<>>)
        ELSE LET braces == {i \in 2..Len(str) : str[i] \in {"{", "}"}}
             IN  IF braces = {} THEN Error("ValueError", <<>>)
                 ELSE LET i == CHOOSE a \in braces : \A b \in braces : a <= b
                          name == SubSeq(str, 2, i - 1)
                      IN  IF str[i] = "{" THEN Error("ValueError", <<>>)
                          ELSE IF name = <<>> THEN Error("IndexError", <<>>)
                          ELSE IF ~getitem(kwargs, name).found
                          THEN Error("KeyError", name)
                          ELSE vformat(SubSeq(str, i + 1, Len(str)), kwargs,
                                       out \o getitem(kwargs, name).value)

\* template.format(**kwargs)
format(template, kwargs) == vformat(template, kwargs, <<>>)

\* A comprehension that filters nothing out.
KeptComponents_all(formatted_components, key) == formatted_components

\* Line 76: [c for c in formatted_components if "{{{}}}".format(key) not in c]
KeptComponents(formatted_components, key) ==
    SelectSeq(formatted_components, LAMBDA c : ~Contains(c, Brace(key)))

\* A comparison that never finds the template unchanged.
IsFixedPoint_never(last_template, template) == FALSE

\* A comparison that finds the template unchanged after every removal.
IsFixedPoint_always(last_template, template) == TRUE

\* Line 78: `if last_template == template`.
IsFixedPoint(last_template, template) == last_template = template

\* What a call ends with.
NoOutcome == [kind |-> "none", none |-> FALSE, url |-> <<>>, type |-> NoExc,
              invalid_url |-> FALSE, names |-> <<>>]
Return(url) == [NoOutcome EXCEPT !.kind = "return", !.url = url]
\* The end of the loop taken for an error.
ReturnNone_raising == [NoOutcome EXCEPT !.kind = "raise", !.type = "ValueError"]
\* Line 71: `while components` ends and the function returns None.
ReturnNone == [NoOutcome EXCEPT !.kind = "return", !.none = TRUE]
\* The error without the template in its message.
InvalidUrl_unnamed(template) ==
    [NoOutcome EXCEPT !.kind = "raise", !.type = "ValueError", !.invalid_url = TRUE]

\* Lines 79-81: ValueError(f"The value provided for the url part '{template}' ...").
InvalidUrl(template) ==
    [NoOutcome EXCEPT !.kind = "raise", !.type = "ValueError", !.invalid_url = TRUE,
                      !.names = template]
\* An exception of str.format that no except clause of the loop catches.
Propagate(type) == [NoOutcome EXCEPT !.kind = "raise", !.type = type]

\* Lines 69-70: the frame of a call before the loop.
FormatCall(template, kwargs) ==
    [pc |-> "loop", url_template |-> template, kwargs |-> kwargs,
     template |-> template, last_template |-> template,
     components |-> split(template, "/"), passes |-> 0, outcome |-> NoOutcome]

\* One turn of `while components:` (lines 71-82), or the fall off its end:
\* the frame after it.
FormatTurn(f) ==
    IF f.components = <<>>
    THEN [f EXCEPT !.pc = "done", !.outcome = ReturnNone]
    ELSE LET r == format(f.template, f.kwargs)
         IN  IF r.kind = "ok"
             THEN [f EXCEPT !.pc = "done", !.outcome = Return(r.out)]
             ELSE IF r.kind # "KeyError"
             THEN [f EXCEPT !.pc = "done", !.outcome = Propagate(r.kind)]
             ELSE LET formatted_components == split(f.template, "/")
                      components == KeptComponents(formatted_components, r.key)
                      template == join("/", components)
                  IN  IF IsFixedPoint(f.last_template, template)
                      THEN [f EXCEPT !.pc = "done",
                                     !.components = components,
                                     !.template = template,
                                     !.outcome = InvalidUrl(template)]
                      ELSE [f EXCEPT !.components = components,
                                     !.template = template,
                                     !.last_template = template,
                                     !.passes = @ + 1]

\* The call in progress takes its next turn.
format_url_section ==
    /\ fmt.pc = "loop"
    /\ fmt' = FormatTurn(fmt)
    /\ UNCHANGED <<transportVars, response, reader, lastOp, tasks, joined,
                   client, batch, http_request>>

\* _format_url_section(template, **kwargs) from call to end: the frame it
\* ends with.
RECURSIVE RunFormat(_)
RunFormat(f) == IF f.pc = "done" THEN f ELSE RunFormat(FormatTurn(f))

\* No transport is involved in the calls of the URL helpers.
NoTransport ==
    /\ ctor = "none"
    /\ supplied = NoSession
    /\ owner_arg = TRUE
    /\ session = NoSession
    /\ session_owner = TRUE
    /\ block_size = 1
    /\ connection_config = ConnectionConfiguration(NoKwargs)
    /\ init_kwargs = NoKwargs
    /\ liveSessions = {}
    /\ closedSessions = {}
    /\ released = FALSE
    /\ close_called = FALSE
    /\ supplied_auto = FALSE
    /\ response = NoResponse
    /\ reader = NoReader
    /\ lastOp = [op |-> "none"]
    /\ tasks = <<>>
    /\ client = [pc |-> "idle"]
    /\ batch = [pc |-> "idle"]
    /\ http_request = [pc |-> "idle"]

(***************************************************************************)
(* The templates and value mappings of the calls.  A template is put       *)
(* together from single characters and whole placeholders, among them a    *)
(* placeholder whose name holds a "/"; the template and the values of the  *)
(* spec's scenarios A and B are added as they are written.                 *)
(***************************************************************************)
TemplateChars == {"{", "}", "/", "x", "y"}
PlaceholderNames == {<<"x">>, <<"y">>}
TemplatePieces ==
    {<<c>> : c \in TemplateChars} \cup {Brace(n) : n \in PlaceholderNames}
        \cup {Brace(<<"x", "/", "y">>)}

\* The value given for a name.
ValueOf(name) == IF name = <<"x">> THEN <<"1">> ELSE <<"2">>
ValueMappings == {[n \in K |-> ValueOf(n)] : K \in SUBSET PlaceholderNames}

ScenarioTemplate == <<"/", "i", "t", "e", "m", "s", "/", "{", "i", "d", "}">>
ScenarioValues == (<<"i", "d">> :> <<"4", "2">>)

\* The caller writes the template of the call, piece by piece, limit at most.
ComposeTemplate(limit) ==
    /\ fmt.pc \in {"idle", "composing"}
    /\ LET written == IF fmt.pc = "idle" THEN <<>> ELSE fmt.template
           pieces == IF fmt.pc = "idle" THEN 0 ELSE fmt.pieces
       IN  /\ pieces < limit
           /\ \E piece \in TemplatePieces :
                 fmt' = [pc |-> "composing", template |-> written \o piece,
                         pieces |-> pieces + 1]
    /\ UNCHANGED <<transportVars, response, reader, lastOp, tasks, joined,
                 client, batch, http_request>>

\* _format_url_section(template, **kwargs) is called.
CallFormat ==
    /\ \/ /\ fmt.pc \in {"idle", "composing"}
          /\ \E kwargs \in ValueMappings :
                fmt' = FormatCall(IF fmt.pc = "idle" THEN <<>> ELSE fmt.template,
                                  kwargs)
       \/ /\ fmt.pc = "idle"
          /\ \E kwargs \in {NoKwargs, ScenarioValues} :
                fmt' = FormatCall(ScenarioTemplate, kwargs)
    /\ UNCHANGED <<transportVars, response, reader, lastOp, tasks, joined,
                 client, batch, http_request>>

InitFormat == NoTransport /\ fmt = [pc |-> "idle"] /\ joined = [pc |-> "idle"]

Compose == ComposeTemplate(MaxPieces)

NextFormat == Compose \/ CallFormat \/ format_url_section

SpecFormat == InitFormat /\ [][NextFormat]_vars

ComposeShort == ComposeTemplate(MaxFairPieces)

NextFormatFair == ComposeShort \/ CallFormat \/ format_url_section

\* The calls of shorter templates, under fairness: the caller goes on to make
\* the call and a call goes on running until it returns or raises.
SpecFormatFair == InitFormat /\ [][NextFormatFair]_vars /\ WF_vars(NextFormatFair)


(***************************************************************************)
(* Properties of _format_url_section, under SpecFormat.                    *)
(*                                                                         *)
(* The placeholders of a template: the names between single braces.        *)
(* wellformed is FALSE for a template with a lone brace, a brace inside a  *)
(* name or a placeholder without a name.                                   *)
(***************************************************************************)
RECURSIVE ScanPlaceholders(_, _)
ScanPlaceholders(str, names) ==
    IF str = <<>> THEN [wellformed |-> TRUE, names |-> names]
    ELSE IF Head(str) \notin {"{", "}"} THEN ScanPlaceholders(Tail(str), names)
    ELSE IF Len(str) >= 2 /\ str[2] = Head(str)
    THEN ScanPlaceholders(Tail(Tail(str)), names)
    ELSE IF Head(str) = "}" THEN [wellformed |-> FALSE, names |-> names]
    ELSE LET closing == {i \in 2..Len(str) : str[i] = "}"}
         IN  IF closing = {} THEN [wellformed |-> FALSE, names |-> names]
             ELSE LET i == CHOOSE a \in closing : \A b \in closing : a <= b
                      name == SubSeq(str, 2, i - 1)
                  IN  IF name = <<>> \/ Contains(name, <<"{">>)
                      THEN [wellformed |-> FALSE, names |-> names]
                      ELSE ScanPlaceholders(SubSeq(str, i + 1, Len(str)),
                                            names \cup {name})

Placeholders(template) == ScanPlaceholders(template, {})

FormatDone == fmt.pc = "done"
FormatCalled == fmt.pc \in {"loop", "done"}
\* The placeholders of the call's template that the values have no key for.
Missing == Placeholders(fmt.url_template).names \ DOMAIN fmt.kwargs
\* The call is made with a well-formed template.
WellFormedCall == FormatDone /\ Placeholders(fmt.url_template).wellformed

\* The segments of the call's template that hold none of the missing
\* placeholders, in their order.
SegmentsWithoutMissing ==
    SelectSeq(split(fmt.url_template, "/"),
              LAMBDA c : \A name \in Missing : ~Contains(c, Brace(name)))

\* C15: when the values have a key for every placeholder of the template, the
\* call returns the template with each placeholder replaced by its value, in
\* one pass: nothing is removed, the result has as many segments as the
\* template, and '/items/{id}' with id = '42' gives '/items/42'.
C15_CompleteValuesSubstituteDirectly ==
    (WellFormedCall /\ Missing = {}) =>
        LET direct == format(fmt.url_template, fmt.kwargs)
        IN  /\ direct.kind = "ok"
            /\ fmt.outcome = Return(direct.out)
            /\ fmt.passes = 0
            /\ Len(split(fmt.outcome.url, "/")) = Len(split(fmt.url_template, "/"))
            /\ (fmt.url_template = ScenarioTemplate =>
                    fmt.outcome.url = <<"/", "i", "t", "e", "m", "s", "/", "4", "2">>)

\* Scenario A has returned '/items/42'.
C15_Witness ==
    /\ FormatDone
    /\ fmt.url_template = ScenarioTemplate
    /\ fmt.kwargs = ScenarioValues
    /\ fmt.outcome = Return(<<"/", "i", "t", "e", "m", "s", "/", "4", "2">>)

C17_ScenarioBFails ==
    (FormatDone /\ fmt.url_template = ScenarioTemplate /\ fmt.kwargs = NoKwargs) =>
        fmt.outcome.kind = "raise" /\ fmt.outcome.invalid_url

\* C17, amended: '/items/{id}' with no values returns '/items', the segment of
\* the placeholder removed in one pass.
C17_ScenarioBDropsSegment ==
    (FormatDone /\ fmt.url_template = ScenarioTemplate /\ fmt.kwargs = NoKwargs) =>
        /\ fmt.outcome = Return(<<"/", "i", "t", "e", "m", "s">>)
        /\ fmt.passes = 1

\* Scenario B has ended.
C17_Witness ==
    /\ FormatDone
    /\ fmt.url_template = ScenarioTemplate
    /\ fmt.kwargs = NoKwargs
    /\ fmt.outcome.kind = "return"

\* C18: a turn of the loop in which str.format misses a key and no segment of
\* the template holds that placeholder ends the call with the invalid-URL
\* ValueError, whose message names the template as it stands; no URL is
\* returned.
C18_FixedPointRaisesInvalidUrl ==
    [][ (/\ fmt.pc = "loop"
         /\ fmt.components # <<>>
         /\ format(fmt.template, fmt.kwargs).kind = "KeyError"
         /\ \A i \in DOMAIN split(fmt.template, "/") :
               ~Contains(split(fmt.template, "/")[i],
                         Brace(format(fmt.template, fmt.kwargs).key)))
        => /\ fmt'.pc = "done"
           /\ fmt'.outcome.kind = "raise"
           /\ fmt'.outcome.type = "ValueError"
           /\ fmt'.outcome.invalid_url
           /\ fmt'.outcome.names = fmt.template
           /\ fmt'.outcome.url = <<>> ]_vars

\* '{x/y}' with no values has failed with the error that names '{x/y}'.
C18_Witness ==
    /\ FormatDone
    /\ fmt.url_template = Brace(<<"x", "/", "y">>)
    /\ fmt.outcome = InvalidUrl(Brace(<<"x", "/", "y">>))
    /\ fmt.outcome.names = fmt.url_template

find(str, chars, start) ==
    LET hits == {i \in start..Len(str) : str[i] \in chars}
    IN  IF hits = {} THEN 0 ELSE CHOOSE i \in hits : \A j \in hits : i <= j

\* str.split(sep, 1): the text before the first sep and, when there is a sep,
\* the text after it.
split_once(str, sep) ==
    LET i == find(str, {sep}, 1)
    IN  IF i = 0 THEN <<str>>
        ELSE <<SubSeq(str, 1, i - 1), SubSeq(str, i + 1, Len(str))>>

\* str.rstrip(ch)
RECURSIVE rstrip(_, _)
rstrip(str, ch) ==
    IF str # <<>> /\ str[Len(str)] = ch
    THEN rstrip(SubSeq(str, 1, Len(str) - 1), ch)
    ELSE str

\* The characters a scheme is written with, and the letters among them.
scheme_chars == {"a", "h", "i", "o", "p", "s", "t", "u", "b", "x", "y", "1", "2"}
isalpha(c) == c \in scheme_chars \ {"1", "2"}

https == <<"h", "t", "t", "p", "s">>
\* The schemes that are followed by a network location.
uses_netloc == {<<>>, https, <<"h", "t", "t", "p">>}

\* urlparse(url)
urlparse(url) ==
    LET i == find(url, {":"}, 1)
        has_scheme == /\ i > 1
                      /\ isalpha(url[1])
                      /\ \A k \in 1..(i - 1) : url[k] \in scheme_chars
        scheme == IF has_scheme THEN SubSeq(url, 1, i - 1) ELSE <<>>
        url1 == IF has_scheme THEN SubSeq(url, i + 1, Len(url)) ELSE url
        has_netloc == Len(url1) >= 2 /\ SubSeq(url1, 1, 2) = <<"/", "/">>
        wdelim == find(url1, {"/", "?", "#"}, 3)
        delim == IF wdelim = 0 THEN Len(url1) + 1 ELSE wdelim
        netloc == IF has_netloc THEN SubSeq(url1, 3, delim - 1) ELSE <<>>
        url2 == IF has_netloc THEN SubSeq(url1, delim, Len(url1)) ELSE url1
        by_hash == split_once(url2, "#")
        fragment == IF Len(by_hash) = 2 THEN by_hash[2] ELSE <<>>
        by_mark == split_once(by_hash[1], "?")
        query == IF Len(by_mark) = 2 THEN by_mark[2] ELSE <<>>
    IN  [scheme |-> scheme, netloc |-> netloc, path |-> by_mark[1],
         query |-> query, fragment |-> fragment]

\* ParseResult.geturl()
geturl(parsed) ==
    LET slashed == IF parsed.path # <<>> /\ parsed.path[1] # "/"
                   THEN <<"/">> \o parsed.path ELSE parsed.path
        url1 == IF \/ parsed.netloc # <<>>
                   \/ /\ parsed.scheme # <<>>
                      /\ parsed.scheme \in uses_netloc
                      /\ ~startswith(parsed.path, <<"/", "/">>)
                THEN <<"/", "/">> \o parsed.netloc \o slashed
                ELSE parsed.path
        url2 == IF parsed.scheme # <<>>
                THEN parsed.scheme \o <<":">> \o url1 ELSE url1
        url3 == IF parsed.query # <<>>
                THEN url2 \o <<"?">> \o parsed.query ELSE url2
    IN  IF parsed.fragment # <<>>
        THEN url3 \o <<"#">> \o parsed.fragment ELSE url3

(***************************************************************************)
(* _urljoin(base_url, stub_url) (_base.py, lines 85-111).                  *)
(***************************************************************************)
\* The stub's query takes the place of the base's.
query_params_replacing(base_query, stub_query) == <<stub_query>>

\* Lines 107-109: the stub's query, with the base's query put before it when
\* the base has one.
query_params(base_query, stub_query) ==
    IF base_query # <<>> THEN <<base_query, stub_query>> ELSE <<stub_query>>

\* The whole function: the ParseResult it builds and the URL it returns.
urljoin(base_url, stub_url) ==
    LET parsed_base_url == urlparse(base_url)
        split_url == split_once(stub_url, "?")
        stub_url_path == split_url[1]
        has_stub_query == Len(split_url) = 2 /\ split_url[2] # <<>>
        with_path == [parsed_base_url EXCEPT
                        !.path = rstrip(parsed_base_url.path, "/")
                                    \o <<"/">> \o stub_url_path]
        with_query ==
            IF has_stub_query
            THEN [with_path EXCEPT
                    !.query = join("&",
                                   query_params(with_path.query, split_url[2]))]
            ELSE with_path
    IN  [parsed |-> with_query, url |-> geturl(with_query)]

(***************************************************************************)
(* The calls of _urljoin.  A base is put together from single characters,  *)
(* a scheme and a network location; a stub from single characters.  The    *)
(* base and the stub of the spec's scenario C are added as they are        *)
(* written.                                                                *)
(***************************************************************************)
host == <<"/", "/", "h", "o", "s", "t">>
BasePieces ==
    {<<"/">>, <<"?">>, <<"#">>, <<"a">>, https \o <<":">>, host,
     https \o <<":">> \o host}
StubChars == {"/", "?", "#", "s"}

ScenarioBase == https \o <<":">> \o host \o <<"/", "a", "p", "i", "?", "x", "=", "1">>
ScenarioStub == <<"s", "u", "b", "?", "y", "=", "2">>
ScenarioJoined ==
    https \o <<":">> \o host
        \o <<"/", "a", "p", "i", "/", "s", "u", "b", "?", "x", "=", "1", "&", "y", "=", "2">>

NoArguments == [pc |-> "composing", base_url |-> <<>>, pieces |-> 0,
                stub_url |-> <<>>]
Arguments == IF joined.pc = "idle" THEN NoArguments ELSE joined

\* The caller writes the base of the call, piece by piece.
ComposeBase ==
    /\ joined.pc \in {"idle", "composing"}
    /\ Arguments.stub_url = <<>>
    /\ Arguments.pieces < MaxBasePieces
    /\ \E piece \in BasePieces :
          joined' = [Arguments EXCEPT !.base_url = @ \o piece,
                                      !.pieces = @ + 1]
    /\ UNCHANGED <<transportVars, response, reader, lastOp, tasks, fmt,
                 client, batch, http_request>>

\* The caller writes the stub of the call, character by character.
ComposeStub ==
    /\ joined.pc \in {"idle", "composing"}
    /\ Len(Arguments.stub_url) < MaxStubLen
    /\ \E c \in StubChars :
          joined' = [Arguments EXCEPT !.stub_url = @ \o <<c>>]
    /\ UNCHANGED <<transportVars, response, reader, lastOp, tasks, fmt,
                 client, batch, http_request>>

\* _urljoin(base_url, stub_url) is called and returns.
CallUrljoin ==
    /\ \E args \in {<<Arguments.base_url, Arguments.stub_url>>} \cup
                   (IF joined.pc = "idle"
                    THEN {<<ScenarioBase, ScenarioStub>>} ELSE {}) :
          /\ joined.pc \in {"idle", "composing"}
          /\ joined' = [pc |-> "done", base_url |-> args[1],
                        stub_url |-> args[2],
                        parsed |-> urljoin(args[1], args[2]).parsed,
                        url |-> urljoin(args[1], args[2]).url]
    /\ UNCHANGED <<transportVars, response, reader, lastOp, tasks, fmt,
                 client, batch, http_request>>

InitJoin == NoTransport /\ fmt = [pc |-> "idle"] /\ joined = [pc |-> "idle"]

NextJoin == ComposeBase \/ ComposeStub \/ CallUrljoin

SpecJoin == InitJoin /\ [][NextJoin]_vars

(***************************************************************************)
(* The joined URL.                                                         *)
(***************************************************************************)
JoinDone == joined.pc = "done"

\* The stub's path and query: the text before its first "?" and the text
\* after it.
StubPath == split_once(joined.stub_url, "?")[1]
StubQuery ==
    IF Len(split_once(joined.stub_url, "?")) = 2
    THEN split_once(joined.stub_url, "?")[2] ELSE <<>>

\* path is the base's path without its trailing slashes, one "/", and the
\* stub's path.
IsJoinedPath(path, base_path, stub_path) ==
    \E n \in 0..Len(base_path) :
        LET kept == SubSeq(base_path, 1, Len(base_path) - n)
        IN  /\ \A i \in (Len(base_path) - n + 1)..Len(base_path) :
                  base_path[i] = "/"
            /\ kept = <<>> \/ kept[Len(kept)] # "/"
            /\ path = kept \o <<"/">> \o stub_path

\* query is the base's and the stub's query with "&" between them, or the one
\* of the two there is.
IsJoinedQuery(query, base_query, stub_query) ==
    /\ (base_query # <<>> /\ stub_query # <<>>)
          => query = base_query \o <<"&">> \o stub_query
    /\ (base_query = <<>> /\ stub_query # <<>>) => query = stub_query
    /\ stub_query = <<>> => query = base_query

\* C20: the URL _urljoin puts together has the base's path without trailing
\* slashes, one "/" and the stub's path as its path, and as its query the
\* base's and the stub's query joined by "&", the stub's alone when the base
\* has none, the base's when the stub has none; scheme, network location and
\* fragment are the base's.  The string returned is that URL written out, and
\* read again it has this path and this query when the base names a host and
\* the stub holds no "#".  Scenario C gives
\* 'https://host/api/sub?x=1&y=2'.
C20_JoinedPathAndQuery ==
    JoinDone =>
        LET base == urlparse(joined.base_url)
            read == urlparse(joined.url)
        IN  /\ IsJoinedPath(joined.parsed.path, base.path, StubPath)
            /\ IsJoinedQuery(joined.parsed.query, base.query, StubQuery)
            /\ joined.parsed.scheme = base.scheme
            /\ joined.parsed.netloc = base.netloc
            /\ joined.parsed.fragment = base.fragment
            /\ joined.url = geturl(joined.parsed)
            /\ (base.netloc # <<>> /\ ~Contains(joined.stub_url, <<"#">>))
                  => /\ IsJoinedPath(read.path, base.path, StubPath)
                     /\ IsJoinedQuery(read.query, base.query, StubQuery)
                     /\ read.scheme = base.scheme
                     /\ read.netloc = base.netloc
            /\ (joined.base_url = ScenarioBase /\ joined.stub_url = ScenarioStub)
                  => joined.url = ScenarioJoined

\* Scenario C has been joined: both the base and the stub have a query.
C20_Witness ==
    /\ JoinDone
    /\ joined.base_url = ScenarioBase
    /\ joined.stub_url = ScenarioStub
    /\ urlparse(joined.base_url).query # <<>>
    /\ StubQuery # <<>>
    /\ joined.url = ScenarioJoined

(***************************************************************************)
(* PipelineClientBase (_base.py, lines 150-257): the client keeps its base *)
(* URL; format_url formats a URL template and joins the result to the base *)
(* URL unless it is absolute.                                              *)
(***************************************************************************)
\* str.lstrip(ch)
RECURSIVE lstrip(_, _)
lstrip(str, ch) ==
    IF str # <<>> /\ Head(str) = ch THEN lstrip(Tail(str), ch) ELSE str

\* A test that sends every formatted URL to the base URL.
NeedsBase_always(parsed) == TRUE

\* Line 246: `if not parsed.scheme or not parsed.netloc`.
NeedsBase(parsed) == parsed.scheme = <<>> \/ parsed.netloc = <<>>

\* What format_url ends with: the URL returned and whether _urljoin made it,
\* or the exception raised and the key its message names.
UrlReturned(url, was_joined) ==
    [kind |-> "return", url |-> url, joined |-> was_joined, type |-> NoExc,
     key |-> <<>>]
UrlRaised(type, key) ==
    [kind |-> "raise", url |-> <<>>, joined |-> FALSE, type |-> type,
     key |-> key]

\* format_url(url_template, **kwargs) on a client with this base URL
\* (lines 243-257).
format_url(base_url, url_template, kwargs) ==
    LET section == RunFormat(FormatCall(url_template, kwargs)).outcome
        base == format(base_url, kwargs)
    IN  IF section.kind = "raise" THEN UrlRaised(section.type, section.names)
        ELSE IF ~section.none /\ section.url # <<>>
        THEN IF NeedsBase(urlparse(section.url))
             THEN IF base.kind = "KeyError"
                  THEN UrlRaised("ValueError", base.key)
                  ELSE IF base.kind # "ok" THEN UrlRaised(base.kind, <<>>)
                  ELSE UrlReturned(urljoin(rstrip(base.out, "/"),
                                           lstrip(section.url, "/")).url, TRUE)
             ELSE UrlReturned(section.url, FALSE)
        ELSE IF base.kind # "ok" THEN UrlRaised(base.kind, base.key)
        ELSE UrlReturned(base.out, FALSE)

(***************************************************************************)
(* The clients and the calls of format_url.  A client is made with one of  *)
(* a few base URLs, one of them with a placeholder; a URL template is put  *)
(* together from single characters, a scheme, a network location and a     *)
(* placeholder.                                                            *)
(***************************************************************************)
ClientBaseUrls ==
    {https \o <<":">> \o host,
     https \o <<":">> \o host \o <<"/", "a", "/">>,
     ScenarioBase,
     https \o <<":">> \o host \o <<"/">> \o Brace(<<"y">>)}
UrlPieces ==
    {<<"/">>, <<"?">>, <<"a">>, https \o <<":">>, host, Brace(<<"x">>)}

\* PipelineClientBase(base_url) (lines 156-157).  The module binds the name
\* HttpRequest only under TYPE_CHECKING (lines 48-49): when a client is made,
\* the name is not bound.
NewClient ==
    /\ client.pc = "idle"
    /\ \E base_url \in ClientBaseUrls :
          client' = [pc |-> "ready", base_url |-> base_url, url |-> <<>>,
                     pieces |-> 0, HttpRequest_bound |-> FALSE]
    /\ UNCHANGED <<transportVars, response, reader, lastOp, tasks, fmt, joined,
                   batch, http_request>>

\* The caller writes the URL template of the call, piece by piece.
ComposeUrl ==
    /\ client.pc = "ready"
    /\ client.pieces < MaxPieces
    /\ \E piece \in UrlPieces :
          client' = [client EXCEPT !.url = @ \o piece, !.pieces = @ + 1]
    /\ UNCHANGED <<transportVars, response, reader, lastOp, tasks, fmt, joined,
                   batch, http_request>>

\* client.format_url(url_template, **kwargs) is called and ends.
CallFormatUrl ==
    /\ client.pc = "ready"
    /\ \E kwargs \in ValueMappings :
          client' = [pc |-> "done", op |-> "format_url",
                     base_url |-> client.base_url, url |-> client.url,
                     kwargs |-> kwargs,
                     outcome |-> format_url(client.base_url, client.url, kwargs)]
    /\ UNCHANGED <<transportVars, response, reader, lastOp, tasks, fmt, joined,
                   batch, http_request>>

InitClient == NoTransport /\ fmt = [pc |-> "idle"] /\ joined = [pc |-> "idle"]

NextClient == NewClient \/ ComposeUrl \/ CallFormatUrl

SpecClient == InitClient /\ [][NextClient]_vars

(***************************************************************************)
(* The URL format_url returns.                                             *)
(***************************************************************************)
FormatUrlDone == client.pc = "done" /\ client.op = "format_url"

\* What _format_url_section ends with on the template of the call.
Formatted == RunFormat(FormatCall(client.url, client.kwargs)).outcome
FormattedUrl ==
    /\ FormatUrlDone
    /\ Formatted.kind = "return"
    /\ ~Formatted.none
IsAbsolute(url) == urlparse(url).scheme # <<>> /\ urlparse(url).netloc # <<>>

\* The formatted URL joined to the client's base URL.
JoinedToBase ==
    urljoin(rstrip(format(client.base_url, client.kwargs).out, "/"),
            lstrip(Formatted.url, "/")).url

\* C21 as stated: a formatted URL with a scheme and a network location is
\* returned unchanged and not joined; every other formatted URL is returned
\* joined to the base URL.
C21_AbsoluteReturnedElseJoined ==
    FormattedUrl =>
        IF IsAbsolute(Formatted.url)
        THEN client.outcome = UrlReturned(Formatted.url, FALSE)
        ELSE client.outcome = UrlReturned(JoinedToBase, TRUE)

\* C21, amended: a formatted URL with a scheme and a network location is
\* returned unchanged and not joined; a non-empty one lacking either is
\* returned joined to the base URL, its leading slashes and the base's
\* trailing slashes stripped; an empty one, or none, gives the base URL as it
\* is, not joined.  Where the base URL has a placeholder without a value the
\* call raises instead: ValueError naming the placeholder when a join was due,
\* KeyError otherwise.
C21_AbsoluteReturnedElseJoinedOrBase ==
    (FormatUrlDone /\ Formatted.kind = "return") =>
        LET base == format(client.base_url, client.kwargs)
            empty == Formatted.none \/ Formatted.url = <<>>
        IN  IF ~empty /\ IsAbsolute(Formatted.url)
            THEN client.outcome = UrlReturned(Formatted.url, FALSE)
            ELSE IF base.kind = "KeyError"
            THEN client.outcome =
                    UrlRaised(IF empty THEN "KeyError" ELSE "ValueError", base.key)
            ELSE IF empty THEN client.outcome = UrlReturned(base.out, FALSE)
            ELSE client.outcome = UrlReturned(JoinedToBase, TRUE)

\* An absolute URL came back as it was formatted, and a relative one came
\* back joined to the base URL of scenario C.
C21_Witness ==
    /\ FormatUrlDone
    /\ \/ /\ client.url = https \o <<":">> \o host \o Brace(<<"x">>)
          /\ client.kwargs = (<<"x">> :> <<"1">>)
          /\ client.outcome =
                UrlReturned(https \o <<":">> \o host \o <<"1">>, FALSE)
       \/ /\ client.base_url = ScenarioBase
          /\ client.url = <<"/", "a", "?">> 
          /\ client.outcome.joined
          /\ client.outcome.url =
                https \o <<":">> \o host
                    \o <<"/", "a", "p", "i", "/", "a", "?", "x", "=", "1">>

(***************************************************************************)
(* The multipart serializer (_pipeline_transport_rest_shared.py, lines     *)
(* 101-196).  Wire text is a sequence of tokens: a "-" is a token of its   *)
(* own, so that the search for "--" of line 136 is a search for two        *)
(* neighbouring "-"; the fixed words of the wire format are one token      *)
(* each, and none of them begins or ends with "-".                         *)
(*                                                                         *)
(* The requests of one batch are kept in a sequence; requests[1] is the    *)
(* outer request, and parent is the position of the request whose          *)
(* multipart_mixed_info lists this one, the listed requests being in the   *)
(* order of their positions.  multipart says that multipart_mixed_info is  *)
(* set, boundary is its third entry (empty for None), and generated is the *)
(* boundary the email package makes up when it has to.                     *)
(***************************************************************************)
eol == "\r\n"
dashes == <<"-", "-">>

\* len(text) in bytes.
RECURSIVE ByteLen(_)
ByteLen(text) ==
    IF text = <<>> THEN 0
    ELSE IF Len(text) = 1 THEN Len(text[1])
    ELSE ByteLen(SubSeq(text, 1, Len(text) \div 2))
            + ByteLen(SubSeq(text, Len(text) \div 2 + 1, Len(text)))

\* str(n)
str(n) == <<ToString(n)>>

\* headers[name], and headers[name] = value: headers are (name, value) pairs
\* in the order they were first set.
HasHeader(headers, name) == \E i \in DOMAIN headers : headers[i][1] = name
GetHeader(headers, name) ==
    headers[CHOOSE i \in DOMAIN headers : headers[i][1] = name][2]
SetHeader(headers, name, value) ==
    IF HasHeader(headers, name)
    THEN [i \in DOMAIN headers |->
            IF headers[i][1] = name THEN <<name, value>> ELSE headers[i]]
    ELSE Append(headers, <<name, value>>)

\* The lines "name: value" of a header block.
RECURSIVE HeaderLines(_)
HeaderLines(headers) ==
    IF headers = <<>> THEN <<>>
    ELSE <<Head(headers)[1], ": ">> \o Head(headers)[2] \o <<eol>>
            \o HeaderLines(Tail(headers))

\* A request without a body.
NoBody == <<>>

\* _serialize_request(http_request) (lines 176-196): the request line, the
\* Content-Length http.client adds (for a body, or for a method that expects
\* one), the request's headers, an empty line and the body.
serialize_request(req) ==
    <<req.method, " ">> \o req.url \o <<" HTTP/1.1", eol>>
        \o (IF req.body # NoBody \/ req.method \in {"POST", "PUT", "PATCH"}
            THEN <<"Content-Length", ": ">> \o str(ByteLen(req.body)) \o <<eol>>
            ELSE <<>>)
        \o HeaderLines(req.headers) \o <<eol>> \o req.body

\* text.index(b"--"): the first position where "--" begins (0 when there is none).
index(text, sub) ==
    LET hits == {i \in 1..(Len(text) - Len(sub) + 1) :
                    SubSeq(text, i, i + Len(sub) - 1) = sub}
    IN  IF hits = {} THEN 0 ELSE CHOOSE i \in hits : \A j \in hits : i <= j

\* Line 136: payload[payload.index(b"--"):]
StripFraming(payload) == SubSeq(payload, index(payload, dashes), Len(payload))

\* A counter that stays where it is.
NextIndex_same(content_index) == content_index

\* Line 142: content_index += 1
NextIndex(content_index) == content_index + 1

\* A test that takes every request for a multipart one.
HasMultipart_always(req) == TRUE

\* Lines 117 and 131: `if http_request.multipart_mixed_info`.
HasMultipart(req) == req.multipart

\* The boundary that is always made up.
FinalBoundary_generated(req) == req.generated

\* Lines 126-127 and 151: the boundary of the main message after as_bytes: the
\* one supplied, or the one the email package made up.
FinalBoundary(req) == IF req.boundary # <<>> THEN req.boundary ELSE req.generated

\* Line 144: main_message.attach(part_message)
Attach(parts, part) == Append(parts, part)

\* Lines 138-141 and 143: the part of a request that is not multipart.
HttpPart(content_index, payload) ==
    <<"Content-Type", ": ", "application/http", eol,
      "Content-Transfer-Encoding", ": ", "binary", eol,
      "Content-ID", ": ">> \o str(content_index) \o <<eol, eol>> \o payload

\* Lines 133 and 143: the part of a multipart request.
MultipartPart(content_type, payload) ==
    <<"Content-Type", ": ">> \o content_type \o <<eol, eol>> \o payload

\* The parts between the boundary delimiters, as the email package writes a
\* multipart message.
RECURSIVE Delimited(_, _)
Delimited(parts, boundary) ==
    IF parts = <<>> THEN <<>>
    ELSE IF Len(parts) = 1 THEN Head(parts)
    ELSE Head(parts) \o <<eol>> \o dashes \o boundary \o <<eol>>
            \o Delimited(Tail(parts), boundary)

\* Line 146: main_message.as_bytes(policy=HTTP)
as_bytes(parts, boundary) ==
    <<"Content-Type", ": ", "multipart/mixed; boundary=", "\"">> \o boundary
        \o <<"\"", eol, eol>>
        \o dashes \o boundary \o <<eol>>
        \o Delimited(parts, boundary)
        \o <<eol>> \o dashes \o boundary \o dashes \o <<eol>>

\* Line 153: full_message.split(eol, 2), third piece: the text after the
\* second eol.
AfterEol(text, times) ==
    LET eols == SelectSeq([i \in 1..Len(text) |-> i], LAMBDA i : text[i] = eol)
    IN  SubSeq(text, eols[times] + 1, Len(text))

\* The requests listed by request n, in their order.
Children(requests, n) ==
    SelectSeq([i \in 1..Len(requests) |-> i], LAMBDA i : requests[i].parent = n)

\* _prepare_multipart_body_helper(requests[n], content_index) (lines 101-156)
\* and the loop of its lines 129-144 over the requests still to attach:
\* the requests as the call leaves them, the counter, and what is returned.
RECURSIVE prepare_multipart_body_helper(_, _, _)
RECURSIVE AttachParts(_, _, _, _)
AttachParts(requests, todo, content_index, parts) ==
    IF todo = <<>>
    THEN [requests |-> requests, content_index |-> content_index, parts |-> parts]
    ELSE LET req == Head(todo)
         IN  IF HasMultipart(requests[req])
             THEN LET inner == prepare_multipart_body_helper(requests, req,
                                                            content_index)
                      sub == inner.requests[req]
                  IN  AttachParts(inner.requests, Tail(todo), inner.returned,
                          Attach(parts,
                              MultipartPart(GetHeader(sub.headers, "Content-Type"),
                                            StripFraming(serialize_request(sub)))))
             ELSE AttachParts(requests, Tail(todo), NextIndex(content_index),
                      Attach(parts,
                          HttpPart(content_index,
                                   serialize_request(requests[req]))))

prepare_multipart_body_helper(requests, n, content_index) ==
    IF ~HasMultipart(requests[n])
    THEN [requests |-> requests, returned |-> 0]
    ELSE LET loop == AttachParts(requests, Children(requests, n),
                                 content_index, <<>>)
             final_boundary == FinalBoundary(requests[n])
             full_message == as_bytes(loop.parts, final_boundary)
         IN  [requests |->
                 [loop.requests EXCEPT
                    ![n].body = AfterEol(full_message, 2),
                    ![n].headers =
                        SetHeader(@, "Content-Type",
                                  <<"multipart/mixed; boundary=">>
                                      \o final_boundary)],
              returned |-> loop.content_index]

(***************************************************************************)
(* The batches and the calls.  The caller makes the outer request and then *)
(* the requests it lists, each multipart request followed by the requests  *)
(* it lists in turn, so that every batch is made in one way only.          *)
(***************************************************************************)
SuppliedBoundary == <<"b", "1">>
GeneratedBoundaries == {<<"===", "7", "==">>, <<"===", "8", "==">>}

HttpRequest(method, url, headers, body, parent) ==
    [method |-> method, url |-> url, headers |-> headers, body |-> body,
     multipart |-> FALSE, boundary |-> <<>>, generated |-> <<>>,
     parent |-> parent]
set_multipart_mixed(req, boundary, generated) ==
    [req EXCEPT !.multipart = TRUE, !.boundary = boundary,
                !.generated = generated]

\* The outer requests a caller makes.
OuterRequests ==
    {HttpRequest("GET", <<"/", "a">>, <<>>, NoBody, 0),
     HttpRequest("PUT", <<"/", "b">>,
                 << <<"Content-Type", <<"text/plain">>>> >>, <<"d">>, 0)}
    \cup {set_multipart_mixed(HttpRequest("POST", <<"/", "m">>, <<>>, NoBody, 0),
                              <<>>, g) : g \in GeneratedBoundaries}
    \cup {set_multipart_mixed(HttpRequest("POST", url, <<>>, NoBody, 0),
                              SuppliedBoundary, <<>>) :
             url \in {<<"/", "m">>, <<"/", "m", "-", "-", "x">>}}

\* The requests a caller lists in a multipart request.
ListedRequests(parent) ==
    {HttpRequest("GET", <<"/", "a">>, <<>>, NoBody, parent),
     HttpRequest("PUT", <<"/", "b">>,
                 << <<"Content-Type", <<"text/plain">>>> >>, <<"d">>, parent),
     set_multipart_mixed(HttpRequest("POST", <<"/", "m">>, <<>>, NoBody, parent),
                         <<>>, <<"===", "9", "==">>),
     set_multipart_mixed(HttpRequest("POST", <<"/", "m", "-", "-", "x">>, <<>>,
                                     NoBody, parent),
                         SuppliedBoundary, <<>>)}

\* The request at position n and the requests it is listed under.
RECURSIVE Enclosing(_, _)
Enclosing(requests, n) ==
    IF n = 0 THEN {} ELSE {n} \cup Enclosing(requests, requests[n].parent)

ContentIndexes == 0..MaxContentIndex

\* The caller makes one more request: the outer one, or one listed by a
\* multipart request.
AddRequest ==
    /\ batch.pc \in {"idle", "composing"}
    /\ LET requests == IF batch.pc = "idle" THEN <<>> ELSE batch.requests
       IN  /\ Len(requests) < MaxRequests
           /\ IF requests = <<>>
              THEN \E req \in OuterRequests :
                      batch' = [pc |-> "composing", requests |-> <<req>>]
              ELSE \E parent \in Enclosing(requests, Len(requests)) :
                      /\ requests[parent].multipart
                      /\ \E req \in ListedRequests(parent) :
                            batch' = [pc |-> "composing",
                                      requests |-> Append(requests, req)]
    /\ UNCHANGED <<transportVars, response, reader, lastOp, tasks, fmt, joined,
                   client, http_request>>

\* _prepare_multipart_body_helper(outer request, content_index) is called
\* and returns.
PrepareMultipartBody ==
    /\ batch.pc = "composing"
    /\ \E content_index \in ContentIndexes :
          LET call == prepare_multipart_body_helper(batch.requests, 1,
                                                    content_index)
          IN  batch' = [pc |-> "done", before |-> batch.requests,
                        content_index |-> content_index,
                        requests |-> call.requests,
                        returned |-> call.returned]
    /\ UNCHANGED <<transportVars, response, reader, lastOp, tasks, fmt, joined,
                   client, http_request>>

InitBatch == NoTransport /\ fmt = [pc |-> "idle"] /\ joined = [pc |-> "idle"]

NextBatch == AddRequest \/ PrepareMultipartBody

SpecBatch == InitBatch /\ [][NextBatch]_vars

(***************************************************************************)
(* The serialized batch.                                                   *)
(***************************************************************************)
BatchDone == batch.pc = "done"
\* The outer request carried a multipart descriptor.
MultipartDone == BatchDone /\ batch.before[1].multipart

\* The requests that are not multipart, in depth-first input order.
RECURSIVE DepthFirst(_, _)
DepthFirst(requests, todo) ==
    IF todo = <<>> THEN <<>>
    ELSE (IF requests[Head(todo)].multipart
          THEN DepthFirst(requests, Children(requests, Head(todo)))
          ELSE <<Head(todo)>>)
         \o DepthFirst(requests, Tail(todo))

\* The Content-ID headers of a text in the order they are written, each
\* with the URL of the request line that follows its header block: the
\* header is "Content-ID: <id>", an empty line follows, and the request line
\* is "<method> <url> HTTP/1.1".
NumberedParts(text) ==
    LET at == SelectSeq([i \in 1..Len(text) |-> i],
                        LAMBDA i : text[i] = "Content-ID")
        UrlFrom(i) ==
            LET stop == CHOOSE j \in i..Len(text) :
                            /\ text[j] = " HTTP/1.1"
                            /\ \A k \in i..(j - 1) : text[k] # " HTTP/1.1"
            IN  SubSeq(text, i, stop - 1)
    IN  [k \in DOMAIN at |-> [id |-> text[at[k] + 2], url |-> UrlFrom(at[k] + 7)]]

\* C22: serializing a multipart request from index i writes the Content-ID
\* values i, i+1, i+2, ... on the requests that are not multipart, in
\* depth-first input order over every nesting level, one value each and none
\* left out, and returns i plus the number of these requests in the whole
\* batch.
C22_ContentIdsNumberDepthFirst ==
    MultipartDone =>
        LET leaves == DepthFirst(batch.before, Children(batch.before, 1))
            numbered == NumberedParts(batch.requests[1].body)
        IN  /\ Len(leaves) =
                  Cardinality({n \in DOMAIN batch.before :
                                  ~batch.before[n].multipart})
            /\ Len(numbered) = Len(leaves)
            /\ \A k \in DOMAIN numbered :
                  /\ numbered[k].id = ToString(batch.content_index + k - 1)
                  /\ numbered[k].url = batch.before[leaves[k]].url
            /\ batch.returned = batch.content_index + Len(leaves)

\* Two requests batched from index 0 carry Content-ID 0 and 1 in input
\* order; and a batch with a request listed after a nested group has been
\* numbered across the nesting.
C22_Witness ==
    /\ MultipartDone
    /\ \/ /\ batch.content_index = 0
          /\ Len(batch.before) = 3
          /\ batch.before[2].url = <<"/", "b">>
          /\ batch.before[3].url = <<"/", "a">>
          /\ NumberedParts(batch.requests[1].body) =
                <<[id |-> "0", url |-> <<"/", "b">>],
                  [id |-> "1", url |-> <<"/", "a">>]>>
          /\ batch.returned = 2
       \/ /\ Len(batch.before) = 4
          /\ batch.before[2].multipart /\ batch.before[2].parent = 1
          /\ ~batch.before[3].multipart /\ batch.before[3].parent = 2
          /\ ~batch.before[4].multipart /\ batch.before[4].parent = 1
          /\ batch.returned = batch.content_index + 2

\* C23: on a request without a multipart descriptor the call returns 0,
\* whatever content_index it was given, and leaves the request as it was,
\* body and headers included.
C23_NoDescriptorIsNoOp ==
    (BatchDone /\ ~batch.before[1].multipart) =>
        /\ batch.returned = 0
        /\ batch.requests = batch.before
        /\ batch.requests[1].body = batch.before[1].body
        /\ batch.requests[1].headers = batch.before[1].headers

\* A request with a body and a header was given with content_index 1.
C23_Witness ==
    /\ BatchDone
    /\ ~batch.before[1].multipart
    /\ batch.content_index = 1
    /\ batch.before[1].body # NoBody
    /\ batch.before[1].headers # <<>>
    /\ batch.returned = 0

\* The part the serialized batch holds for a listed request, read from the
\* requests as the call left them: position k of the listed requests.
PartOf(requests, before, content_index, listed, k) ==
    LET req == requests[listed[k]]
        earlier == DepthFirst(before, SubSeq(listed, 1, k - 1))
    IN  IF req.multipart
        THEN MultipartPart(GetHeader(req.headers, "Content-Type"),
                           StripFraming(serialize_request(req)))
        ELSE HttpPart(content_index + Len(earlier), serialize_request(req))

\* C24: after the call the outer request's body is the opening delimiter of
\* the final boundary, the parts of the listed requests in input order with
\* the delimiter between them, and the closing delimiter; its Content-Type
\* header is 'multipart/mixed; boundary=' and the final boundary; the final
\* boundary is the supplied one when one was supplied and the generated one
\* otherwise.
C24_BodyAndContentType ==
    MultipartDone =>
        LET outer == batch.requests[1]
            listed == Children(batch.before, 1)
            final == IF batch.before[1].boundary # <<>>
                     THEN batch.before[1].boundary
                     ELSE batch.before[1].generated
            parts == [k \in DOMAIN listed |->
                        PartOf(batch.requests, batch.before,
                               batch.content_index, listed, k)]
        IN  /\ final # <<>>
            /\ GetHeader(outer.headers, "Content-Type") =
                  <<"multipart/mixed; boundary=">> \o final
            /\ outer.body =
                  dashes \o final \o <<eol>>
                      \o Delimited(parts, final)
                      \o <<eol>> \o dashes \o final \o dashes \o <<eol>>
            /\ \A k \in DOMAIN listed :
                  Contains(outer.body,
                           dashes \o final \o <<eol>> \o parts[k]
                               \o <<eol>> \o dashes \o final)

\* A batch of two requests with a supplied boundary, and one with a
\* generated boundary, have been serialized.
C24_Witness ==
    /\ MultipartDone
    /\ Len(Children(batch.before, 1)) >= 2
    /\ \/ /\ batch.before[1].boundary = SuppliedBoundary
          /\ GetHeader(batch.requests[1].headers, "Content-Type") =
                <<"multipart/mixed; boundary=">> \o SuppliedBoundary
       \/ /\ batch.before[1].boundary = <<>>
          /\ GetHeader(batch.requests[1].headers, "Content-Type") =
                <<"multipart/mixed; boundary=">> \o batch.before[1].generated

\* C25: the part of a listed request that is itself multipart has the
\* request's own multipart Content-Type, has no Content-ID, and its payload
\* is the nested body from its opening boundary delimiter on: request line
\* and header framing are gone, whatever the request's URL and headers.
C25_NestedPayloadIsNestedBody ==
    MultipartDone =>
        \A n \in DOMAIN batch.before :
            (batch.before[n].multipart /\ batch.before[n].parent = 1) =>
                LET sub == batch.requests[n]
                    final == FinalBoundary(batch.before[1])
                    nested == FinalBoundary(batch.before[n])
                IN  /\ GetHeader(sub.headers, "Content-Type") =
                          <<"multipart/mixed; boundary=">> \o nested
                    /\ SubSeq(sub.body, 1, Len(nested) + 2) = dashes \o nested
                    /\ Contains(batch.requests[1].body,
                                dashes \o final \o <<eol>>
                                    \o <<"Content-Type", ": ">>
                                    \o GetHeader(sub.headers, "Content-Type")
                                    \o <<eol, eol>> \o sub.body
                                    \o <<eol>> \o dashes \o final)

(***************************************************************************)
(* The request builder, PipelineClientBase._request (_base.py, lines       *)
(* 159-231).  content is None, an XML tree (ET.Element) or another value;  *)
(* form_content is None, an empty dict or a dict with fields;              *)
(* stream_content is None, an empty (falsy) value or a stream.  headers is *)
(* None or a dict, and the dict is the caller's: what the builder pops     *)
(* from it is gone for the caller.                                         *)
(***************************************************************************)
text_slash == <<"t", "e", "x", "t", "/">>
urlencoded == <<"a", "p", "p", "l", "i", "c", "a", "t", "i", "o", "n", "/", "x", "-", "w",
    "w", "w", "-", "f", "o", "r", "m", "-", "u", "r", "l", "e", "n", "c", "o", "d", "e",
    "d">>

\* str.lower(), for the capital letters of the header values below.
ToLower == ("A" :> "a") @@ ("T" :> "t") @@ ("E" :> "e") @@ ("X" :> "x")
lower(value) ==
    [i \in DOMAIN value |->
        IF value[i] \in DOMAIN ToLower THEN ToLower[value[i]] ELSE value[i]]

\* No dict (None) and the dicts of headers.
NoHeaders == [none |-> TRUE, items |-> NoKwargs]
Headers(items) == [none |-> FALSE, items |-> items]

\* Line 197: `headers.pop("Content-Type", None) if headers else None`; an
\* absent value is the empty text, which every test of it takes as None.
content_type_of(headers) ==
    IF headers.none \/ DOMAIN headers.items = {} THEN <<>>
    ELSE pop(headers.items, "Content-Type", <<>>)
\* The caller's dict after line 197.
headers_after_pop(headers) ==
    IF headers.none \/ DOMAIN headers.items = {} THEN headers
    ELSE Headers(Without(headers.items, {"Content-Type"}))

\* Line 206: `content_type and content_type.startswith("text/")`.
IsText(content_type) ==
    content_type # <<>> /\ startswith(content_type, text_slash)

\* Line 213: `content_type and content_type.lower() == "application/x-www-form-urlencoded"`.
IsUrlEncoded(content_type) ==
    content_type # <<>> /\ lower(content_type) = urlencoded

\* Lines 196-218: the four body slots; a slot holds "None" or names the
\* argument whose value it was given.
body_selection(content, form_content, stream_content, content_type) ==
    LET none == [req_content |-> "None", req_json |-> "None",
                 req_data |-> "None", req_files |-> "None"]
        by_content ==
            IF content = "None" THEN none
            ELSE IF content = "Element" THEN [none EXCEPT !.req_content = "content"]
            ELSE IF IsText(content_type) THEN [none EXCEPT !.req_content = "content"]
            ELSE [none EXCEPT !.req_json = "content"]
    IN  IF form_content = "fields"
        THEN IF IsUrlEncoded(content_type)
             THEN [by_content EXCEPT !.req_data = "form_content"]
             ELSE [by_content EXCEPT !.req_files = "form_content"]
        ELSE IF stream_content = "stream"
        THEN [by_content EXCEPT !.req_content = "stream_content"]
        ELSE by_content

\* rest.HttpRequest(method, url, params=None, headers=headers): the request
\* value with its own copy of the headers.
RestHttpRequest(method, url, headers) ==
    [method |-> method, url |-> url,
     headers |-> IF headers.none THEN NoKwargs ELSE headers.items]
NoRequest == [method |-> "", url |-> <<>>, headers |-> NoKwargs]
NoSelection == [req_content |-> "None", req_json |-> "None",
                req_data |-> "None", req_files |-> "None"]

\* _request(method, url, None, headers, content, form_content,
\* stream_content) on a client (lines 188-231): what it returns or raises,
\* whether lines 196-218 were reached and the slots they set, and the
\* caller's headers after the call.
request(HttpRequest_bound, base_url, method, url, headers, content, form_content, stream_content) ==
    LET formatted == format_url(base_url, url, NoKwargs)
        content_type == content_type_of(headers)
        left == headers_after_pop(headers)
        raised(type) ==
            [kind |-> "raise", type |-> type, request |-> NoRequest,
             selected |-> FALSE, selection |-> NoSelection,
             headers_after |-> headers]
    IN  IF ~HttpRequest_bound THEN raised("NameError")
        ELSE IF formatted.kind = "raise" THEN raised(formatted.type)
        ELSE [kind |-> "return", type |-> NoExc,
              request |-> RestHttpRequest(method, formatted.url, left),
              selected |-> TRUE,
              selection |-> body_selection(content, form_content,
                                           stream_content, content_type),
              headers_after |-> left]

(***************************************************************************)
(* The calls of the request builder.                                       *)
(***************************************************************************)
ContentTypes ==
    {<<"t", "e", "x", "t", "/", "p", "l", "a", "i", "n">>, <<"T", "E", "X", "T", "/", "p",
     "l", "a", "i", "n">>, <<"a", "p", "p", "l", "i", "c", "a", "t", "i", "o", "n", "/",
     "j", "s", "o", "n">>, urlencoded, <<"A", "p", "p", "l", "i", "c", "a", "t", "i", "o",
     "n", "/", "x", "-", "w", "w", "w", "-", "f", "o", "r", "m", "-", "u", "r", "l", "e",
     "n", "c", "o", "d", "e", "d">>}
HeaderMappings ==
    {NoHeaders, Headers(NoKwargs), Headers("x-id" :> <<"1">>)}
        \cup {Headers("Content-Type" :> t) : t \in ContentTypes}
        \cup {Headers(("Content-Type" :> t) @@ ("x-id" :> <<"1">>)) :
                 t \in ContentTypes}
Contents == {"None", "Element", "value"}
FormContents == {"None", "empty", "fields"}
StreamContents == {"None", "empty", "stream"}
BuilderUrls ==
    {<<"/", "a">>, https \o <<":">> \o host \o <<"/", "b">>, <<"/", "{", "x">>}
Methods == {"GET", "PUT"}

\* The embedding program binds the name HttpRequest in the module of the
\* client.
BindHttpRequest ==
    /\ client.pc = "ready"
    /\ ~client.HttpRequest_bound
    /\ client' = [client EXCEPT !.HttpRequest_bound = TRUE]
    /\ UNCHANGED <<transportVars, response, reader, lastOp, tasks, fmt, joined,
                   batch, http_request>>

\* client._request(...) is called and ends.
CallRequest ==
    /\ client.pc = "ready"
    /\ \E method \in Methods, url \in BuilderUrls, headers \in HeaderMappings,
          content \in Contents, form_content \in FormContents,
          stream_content \in StreamContents :
          client' = [pc |-> "done", op |-> "_request",
                     base_url |-> client.base_url,
                     HttpRequest_bound |-> client.HttpRequest_bound,
                     method |-> method, url |-> url, headers |-> headers,
                     content |-> content, form_content |-> form_content,
                     stream_content |-> stream_content,
                     outcome |-> request(client.HttpRequest_bound,
                                         client.base_url, method, url, headers,
                                         content, form_content, stream_content)]
    /\ UNCHANGED <<transportVars, response, reader, lastOp, tasks, fmt, joined,
                   batch, http_request>>

InitRequest == NoTransport /\ fmt = [pc |-> "idle"] /\ joined = [pc |-> "idle"]

NextRequest == NewClient \/ BindHttpRequest \/ CallRequest

SpecRequest == InitRequest /\ [][NextRequest]_vars

(***************************************************************************)
(* The request that is built.                                              *)
(***************************************************************************)
RequestDone == client.pc = "done" /\ client.op = "_request"
\* The call got as far as the choice of the body (lines 196-218).
BodySelected == RequestDone /\ client.outcome.selected
SlotsSet ==
    {slot \in {"req_content", "req_json", "req_data", "req_files"} :
        client.outcome.selection[slot] # "None"}
ContentType == content_type_of(client.headers)

\* C26: whatever content, form content, stream content and headers are
\* given, the call chooses the body, and at most one of the four body slots
\* is set.
C26_AtMostOneBodySlot ==
    (RequestDone /\ format_url(client.base_url, client.url, NoKwargs).kind = "return")
        => /\ BodySelected
           /\ Cardinality(SlotsSet) <= 1

\* C27: the stream source is a body only when neither content nor form
\* content was supplied; with content supplied, no slot holds the stream
\* source.
C27_StreamOnlyWithoutContentAndForm ==
    BodySelected =>
        /\ client.outcome.selection.req_content = "stream_content"
              => client.content = "None" /\ client.form_content # "fields"
        /\ client.content # "None"
              => \A slot \in SlotsSet :
                    client.outcome.selection[slot] # "stream_content"

\* C28: an XML tree is kept as raw content; other content is kept as raw
\* (text) content when Content-Type starts with 'text/' and is JSON
\* otherwise; form content is URL-encoded data only when Content-Type is
\* exactly 'application/x-www-form-urlencoded' and file fields for every
\* other Content-Type value or none.
C28_BodyKindPrecedence ==
    BodySelected =>
        LET sel == client.outcome.selection
        IN  /\ client.content = "Element" => sel.req_content = "content"
            /\ (client.content = "value" /\ startswith(ContentType, text_slash))
                  => sel.req_content = "content" /\ sel.req_json = "None"
            /\ (client.content = "value" /\ ~startswith(ContentType, text_slash))
                  => sel.req_json = "content"
            /\ client.form_content = "fields" =>
                  IF ContentType = urlencoded
                  THEN sel.req_data = "form_content" /\ sel.req_files = "None"
                  ELSE sel.req_files = "form_content" /\ sel.req_data = "None"

\* C29: the call returns a request with the method given, the formatted URL
\* and every header the caller supplied, Content-Type included, and the
\* caller's headers are after the call what they were before it.
C29_RequestCarriesMethodUrlHeaders ==
    (RequestDone /\ format_url(client.base_url, client.url, NoKwargs).kind = "return")
        => /\ client.outcome.kind = "return"
           /\ client.outcome.request.method = client.method
           /\ client.outcome.request.url =
                 format_url(client.base_url, client.url, NoKwargs).url
           /\ \A name \in DOMAIN client.headers.items :
                 /\ name \in DOMAIN client.outcome.request.headers
                 /\ client.outcome.request.headers[name] = client.headers.items[name]
           /\ client.outcome.headers_after = client.headers



(***************************************************************************)
(* Decompression while streaming: the backend serves a complete gzip or    *)
(* deflate stream, and the reader pulls it in chunks of any sizes up to    *)
(* its block size.  zlib.decompress(body, wbits) is one decompressor fed   *)
(* the whole body in one call.                                             *)
(***************************************************************************)
MaxEncodedLen == 4     \* longest compressed stream after the gzip header

zlib_decompress(body, wbits) == decompress(decompressobj(wbits), body, <<>>)

\* The stream is complete: nothing is rejected and no code is left half read.
IsEncoded(body, enc) ==
    LET r == zlib_decompress(body, zlib_mode(enc))
    IN  ~r.error /\ ~r.decompressor.header /\ r.decompressor.pending = <<>>

EncodedBodies(enc) ==
    {body \in SeqsUpTo(MaxEncodedLen + 1) :
        /\ IsEncoded(body, enc)
        /\ Len(body) <= MaxEncodedLen + (IF enc = "gzip" THEN Len(GzipHeader) ELSE 0)}

CompressedEncodings == {"gzip", "deflate"}

\* The response keeps, beside the stream still to be read, the body as served.
InitDecompress ==
    /\ ctor = "ok"
    /\ supplied = NoSession
    /\ owner_arg = TRUE
    /\ session = SuppliedSession + 1
    /\ session_owner = TRUE
    /\ block_size \in 1..(MaxEncodedLen + 1)
    /\ init_kwargs = ("connection_data_block_size" :> block_size)
    /\ connection_config = ConnectionConfiguration(init_kwargs)
    /\ liveSessions = {session}
    /\ closedSessions = {}
    /\ released = FALSE
    /\ close_called = FALSE
    /\ supplied_auto = FALSE
    /\ \E enc \in CompressedEncodings :
         \E body \in EncodedBodies(enc) :
            response = ("body" :> body)
                       @@ NewResponse(body, enc, Len(body), block_size, TRUE)
    /\ reader = NoReader
    /\ lastOp = [op |-> "send", stream |-> TRUE, allocated |-> NoSession,
                 dispatchedOn |-> session, sessionLive |-> TRUE, raised |-> NoExc,
                 bodyRead |-> FALSE, stage |-> "done", exc |-> NoExc, cause |-> NoExc]
    /\ tasks = <<>>
    /\ fmt = [pc |-> "idle"]
    /\ joined = [pc |-> "idle"]
    /\ client = [pc |-> "idle"]
    /\ batch = [pc |-> "idle"]
    /\ http_request = [pc |-> "idle"]

NextDecompress == IterCall \/ Pull

SpecDecompress == InitDecompress /\ [][NextDecompress]_vars

\* The reader decompresses, and has pulled the stream to its end.
DecompressedToEnd ==
    /\ reader.exists
    /\ reader.decompress
    /\ reader.exhausted
    /\ Lower(response.enc) \in {"gzip", "deflate"}

Whole == zlib_decompress(response.body, zlib_mode(Lower(response.enc)))

\* C30: a gzip or deflate stream pulled through the reader in chunks of any
\* sizes gives, chunk after chunk, the bytes that decompressing the whole
\* body in one call gives; no pull is rejected by the decompressor.
C30_ChunkedDecompressionEqualsWhole ==
    /\ DecompressedToEnd => reader.out = Whole.out
    /\ (reader.exists /\ lastOp.op = "pull") => lastOp.raised # "ZlibError"

\* A gzip stream of two codes was pulled one byte at a time, so that the header
\* and every half of a code came in a chunk of its own.
C30_Witness ==
    /\ DecompressedToEnd
    /\ Lower(response.enc) = "gzip"
    /\ reader.block_size = 1
    /\ Len(response.body) = Len(GzipHeader) + 4
    /\ Len(reader.out) >= 3


(***************************************************************************)
(* The life of the reader's decompressor.                                  *)
(***************************************************************************)
HasDecompressor(rdr) == rdr.exists /\ rdr.decompressor # NoDecompressor

\* The reader decompresses the chunks of this response (lines 287-293).
Decompresses(rdr, resp) ==
    /\ rdr.decompress
    /\ resp.enc # NoHeader
    /\ Lower(resp.enc) \in {"gzip", "deflate"}

\* This step is a pull whose read returned bytes.
PulledBytes ==
    /\ reader.exists
    /\ lastOp'.op = "pull"
    /\ lastOp'.read = "data"
    /\ lastOp'.raw # <<>>

\* C31: the reader has no decompressor until a pull reads a chunk that is not
\* empty while decompression is enabled and the Content-Encoding is gzip or
\* deflate in any letter case; that pull makes it, and every later pull feeds
\* its chunk to the same decompressor, in the state the pull before left it.
\* With decompression disabled, without a Content-Encoding or with another
\* encoding, a pull returns the chunk it read and no decompressor is made.
C31_DecompressorIsLazyAndReused ==
    [][ /\ (HasDecompressor(reader') /\ ~HasDecompressor(reader)) =>
              (PulledBytes /\ Decompresses(reader, response))
        /\ (PulledBytes /\ Decompresses(reader, response)) => HasDecompressor(reader')
        /\ HasDecompressor(reader) =>
              /\ HasDecompressor(reader')
              /\ LET fed == decompress(reader.decompressor, lastOp'.raw, <<>>)
                 IN  IF ~PulledBytes THEN reader'.decompressor = reader.decompressor
                     ELSE IF fed.error
                     THEN /\ reader'.decompressor = reader.decompressor
                          /\ lastOp'.raised = "ZlibError"
                     ELSE /\ reader'.decompressor = fed.decompressor
                          /\ lastOp'.kind = "return"
                          /\ lastOp'.chunk = fed.out
        /\ (PulledBytes /\ ~Decompresses(reader, response)) =>
              /\ lastOp'.kind = "return"
              /\ lastOp'.chunk = lastOp'.raw
              /\ ~HasDecompressor(reader')
      ]_vars

\* The second chunk of a body served as 'GZip' went to the decompressor the
\* first chunk had made: the header was behind it, and it took the chunk for
\* the first half of a code.
C31_Witness ==
    /\ HasDecompressor(reader)
    /\ response.enc = "GZip"
    /\ lastOp.op = "pull"
    /\ ~lastOp.first
    /\ lastOp.raw # <<>>
    /\ lastOp.kind = "return"
    /\ ~reader.decompressor.header
    /\ reader.decompressor.pending # <<>>


\* C32: a transport whose constructor returned and that does not own its
\* session has a session, whatever open, send and close calls came before.
C32_NonOwnerHoldsSession ==
    (ctor = "ok" /\ ~session_owner) => session # NoSession


(***************************************************************************)
(* Sends with a concurrent close().  close() runs between two steps of a   *)
(* send, that is, while the send is suspended at one of its awaits.        *)
(***************************************************************************)
NextClosing == Enter \/ Dispatch \/ Answered \/ Read \/ close

SpecClosing == InitConcurrent /\ [][NextClosing]_vars

ErrorKinds == {"ServiceRequestError", "ServiceResponseError", "IncompleteReadError"}

\* The send is waiting at an await of lines 121, 219 or 236.
Suspended(t) == tasks[t].pc \in {"entering", "requesting", "reading"}

MadeUpBoundaries(req) ==
    IF req.parent = 0 THEN GeneratedBoundaries
    ELSE {<<"===", "9", "==">>, <<"===", "6", "==">>}

\* The batches a call may work on: each multipart request without a supplied
\* boundary gets whichever boundary the email package makes up this time.
MadeUpAgain(requests) ==
    LET open_ == {n \in DOMAIN requests :
                    requests[n].multipart /\ requests[n].boundary = <<>>}
    IN  {[n \in DOMAIN requests |->
            IF n \in open_ THEN [requests[n] EXCEPT !.generated = g[n]]
            ELSE requests[n]] :
         g \in {f \in [open_ -> UNION {MadeUpBoundaries(requests[n]) : n \in open_}] :
                   \A n \in open_ : f[n] \in MadeUpBoundaries(requests[n])}}

\* _prepare_multipart_body_helper is called once more on the outer request,
\* with the content_index of the first call.
PrepareMultipartBodyAgain ==
    /\ batch.pc = "done"
    /\ \E requests \in MadeUpAgain(batch.requests) :
          LET call == prepare_multipart_body_helper(requests, 1, batch.content_index)
          IN  batch' = [pc |-> "again", before |-> batch.before,
                        content_index |-> batch.content_index,
                        first |-> batch.requests,
                        requests |-> call.requests,
                        returned |-> call.returned]
    /\ UNCHANGED <<transportVars, response, reader, lastOp, tasks, fmt, joined,
                   client, http_request>>

NextBatchAgain == AddRequest \/ PrepareMultipartBody \/ PrepareMultipartBodyAgain

SpecBatchAgain == InitBatch /\ [][NextBatchAgain]_vars

\* A multipart request has been serialized twice.
SerializedTwice == batch.pc = "again" /\ batch.before[1].multipart

\* C34: the second serialization of a multipart request from the same index
\* leaves the request with the Content-Type, boundary included, and the body
\* that the first serialization gave it, whether the caller supplied the
\* boundary or the serialization made it up.
C34_SecondSerializationIsIdentical ==
    SerializedTwice =>
        /\ GetHeader(batch.requests[1].headers, "Content-Type")
              = GetHeader(batch.first[1].headers, "Content-Type")
        /\ batch.requests[1].body = batch.first[1].body


(***************************************************************************)
(* handle_non_stream_rest_response called on a response that has not been  *)
(* read: read() returns, or raises what the backend raises, or is          *)
(* interrupted from the keyboard while it blocks.                          *)
(***************************************************************************)
ReadResults == {"ok"} \cup BackendExceptions \cup {"KeyboardInterrupt"}

HandleNonStream ==
    /\ response.exists
    /\ response.content = Unread
    /\ ~response.is_closed
    /\ \E rd \in ReadResults :
          LET r == handle_non_stream_rest_response(response, rd)
          IN  /\ response' = r.response
              /\ lastOp' = [op |-> "handle", read |-> rd, exc |-> r.exc,
                            body |-> response.wire]
    /\ UNCHANGED <<transportVars, reader>>
    /\ UNCHANGED otherVars

NextHandle == HandleNonStream

SpecHandle == InitReader /\ [][NextHandle]_vars

\* C35: after handle_non_stream_rest_response the response is closed; when
\* read() returned, the body has been read and nothing is raised, and when
\* read() raised, the caller gets the exception read() raised.
C35_HandlerLeavesResponseClosed ==
    lastOp.op = "handle" =>
        /\ response.is_closed
        /\ IF lastOp.read = "ok"
           THEN response.content = lastOp.body /\ lastOp.exc = NoExc
           ELSE lastOp.exc = lastOp.read


\* C36: a pull that read bytes and was not refused by the decompressor returns
\* a chunk, be it empty: when the chunk is empty the response is left as it
\* was and exhaustion is not signalled.  StopAsyncIteration is raised only by
\* a pull whose read returned no bytes.
C36_EmptyOutputIsNotExhaustion ==
    lastOp.op = "pull" =>
        /\ (lastOp.read = "data" /\ lastOp.raw # <<>> /\ lastOp.raised # "ZlibError") =>
               /\ lastOp.kind = "return"
               /\ lastOp.exc = NoExc
               /\ lastOp.chunk = <<>> =>
                     /\ response.is_closed = lastOp.wasClosed
                     /\ reader.exhausted = lastOp.afterExhausted
        /\ lastOp.exc = "StopAsyncIteration" =>
               (lastOp.read = "data" /\ lastOp.raw = <<>>)
        /\ (reader.exhausted /\ ~lastOp.afterExhausted) =>
               (lastOp.read = "data" /\ lastOp.raw = <<>>)

\* The pull read the header of a gzip stream and nothing more: it returned an
\* empty chunk, and the response is open and the reader not exhausted.
C36_Witness ==
    /\ lastOp.op = "pull"
    /\ Lower(response.enc) = "gzip"
    /\ lastOp.raw = GzipHeader
    /\ lastOp.kind = "return"
    /\ lastOp.chunk = <<>>
    /\ ~response.is_closed
    /\ ~reader.exhausted
    /\ response.wire # <<>>


(***************************************************************************)
(* format_url on a template of which nothing is left.                      *)
(***************************************************************************)
\* The placeholders of the call's template that the values have no key for.
MissingOfCall == Placeholders(client.url).names \ DOMAIN client.kwargs

\* Every segment of the call's template holds a missing placeholder.
NoSegmentLeft ==
    /\ FormatUrlDone
    /\ MissingOfCall # {}
    /\ \A k \in DOMAIN split(client.url, "/") :
          \E name \in MissingOfCall : Contains(split(client.url, "/")[k], Brace(name))

MaxQueryPieces == 4    \* most pieces of the query part of a request URL

Str(chars) == [kind |-> "str", chars |-> chars, items |-> <<>>]
None == [kind |-> "None", chars |-> <<>>, items |-> <<>>]
List(items) == [kind |-> "list", chars |-> <<>>, items |-> items]

\* d[key] = value
SetItem(d, key, value) ==
    IF \E k \in DOMAIN d : d[k][1] = key
    THEN [k \in DOMAIN d |-> IF d[k][1] = key THEN <<key, value>> ELSE d[k]]
    ELSE Append(d, <<key, value>>)

\* d.update(other)
RECURSIVE update(_, _)
update(d, other) ==
    IF other = <<>> THEN d
    ELSE update(SetItem(d, Head(other)[1], Head(other)[2]), Tail(other))

\* Line 66: {p[0]: p[-1] for p in [p.partition("=") for p in query.split("&")]}
existing_params(query) ==
    LET parts == split(query, "&")
        Item(p) == LET kv == split_once(p, "=")
                   IN  <<kv[1], Str(IF Len(kv) = 2 THEN kv[2] ELSE <<>>)>>
    IN  update(<<>>, [k \in DOMAIN parts |-> Item(parts[k])])

\* Lines 70-78 for one item: the entries it adds to query_params, or the key
\* of the ValueError.
Entries(item) ==
    LET k == item[1]
        v == item[2]
        Entry(w) == k \o <<"=">> \o w.chars
    IN  IF v.kind = "list"
        THEN [raised |-> \E n \in DOMAIN v.items : v.items[n] = None,
              entries |-> [n \in DOMAIN v.items |-> Entry(v.items[n])]]
        ELSE [raised |-> v = None, entries |-> <<Entry(v)>>]

\* query_params after the loop of lines 69-78, from what each item added.
RECURSIVE query_params_of(_)
query_params_of(done) ==
    IF done = <<>> THEN <<>>
    ELSE Head(done).entries \o query_params_of(Tail(done))

\* Lines 63-65: the URL the loop of line 69 starts with, which is the URL the
\* request is left with when the loop raises.
UrlWithoutQuery(url) ==
    IF urlparse(url).query # <<>> THEN split_once(url, "?")[1] ELSE url

\* The whole helper: the request's URL and the caller's params after the
\* call, and the exception raised.
format_parameters_helper(url, params) ==
    LET query == urlparse(url).query
        merged == IF query # <<>> THEN update(params, existing_params(query))
                  ELSE params
        done == [k \in DOMAIN merged |-> Entries(merged[k])]
        raised == \E k \in DOMAIN done : done[k].raised
    IN  IF raised
        THEN [url |-> UrlWithoutQuery(url), params |-> merged,
              exc |-> "ValueError"]
        ELSE [url |-> UrlWithoutQuery(url) \o <<"?">> \o join("&", query_params_of(done)),
              params |-> merged, exc |-> NoExc]

(***************************************************************************)
(* The requests and the calls.                                             *)
(***************************************************************************)
RequestPaths == {<<"/", "p">>, https \o <<":">> \o <<"/", "/">> \o host \o <<"/", "p">>}
QueryPieces == {<<"?">>, <<"&">>, <<"a", "=", "1">>, <<"b">>, <<"=">>}
ParameterValues ==
    {Str(<<"2">>), None, List(<<Str(<<"2">>), Str(<<"3">>)>>),
     List(<<Str(<<"2">>), None>>)}
ParameterMappings ==
    {<<>>}
    \cup {<< <<k, v>> >> : k \in {<<"a">>, <<"b">>}, v \in ParameterValues}
    \cup {<< <<<<"a">>, v>>, <<<<"b">>, w>> >> : v, w \in ParameterValues}

\* HttpRequest(method, url)
NewRequest ==
    /\ http_request.pc = "idle"
    /\ \E url \in RequestPaths :
          http_request' = [pc |-> "ready", url |-> url, pieces |-> 0]
    /\ UNCHANGED <<transportVars, response, reader, lastOp, tasks, fmt, joined,
                   client, batch>>

\* The caller writes the query part of the request's URL, piece by piece.
ComposeQuery ==
    /\ http_request.pc = "ready"
    /\ http_request.pieces < MaxQueryPieces
    /\ \E piece \in QueryPieces :
          http_request' = [http_request EXCEPT !.url = @ \o piece, !.pieces = @ + 1]
    /\ UNCHANGED <<transportVars, response, reader, lastOp, tasks, fmt, joined,
                   client, batch>>

\* _format_parameters_helper(http_request, params) is called and ends.
FormatParameters ==
    /\ http_request.pc = "ready"
    /\ \E params \in ParameterMappings :
          LET call == format_parameters_helper(http_request.url, params)
          IN  http_request' = [pc |-> "done", url |-> call.url,
                               url_before |-> http_request.url,
                               params_before |-> params,
                               params |-> call.params, exc |-> call.exc]
    /\ UNCHANGED <<transportVars, response, reader, lastOp, tasks, fmt, joined,
                   client, batch>>

InitParameters == NoTransport /\ fmt = [pc |-> "idle"] /\ joined = [pc |-> "idle"]

NextParameters == NewRequest \/ ComposeQuery \/ FormatParameters

SpecParameters == InitParameters /\ [][NextParameters]_vars

\* C38: when the call raises ValueError for a value or a list element that is
\* None, the request has the URL it had before the call, query string
\* included.
C38_FailedFormattingKeepsUrl ==
    (http_request.pc = "done" /\ http_request.exc = "ValueError") =>
        http_request.url = http_request.url_before


\* The case of C38 the code does keep: a URL without a query string is the
\* same after a call that raises.
FailedFormattingKeepsQuerylessUrl ==
    (/\ http_request.pc = "done"
     /\ http_request.exc = "ValueError"
     /\ urlparse(http_request.url_before).query = <<>>) =>
        http_request.url = http_request.url_before

\* A call that raises although the URL had a query string: the query string
\* is gone from the request.
QueryLostOnFailure ==
    /\ http_request.pc = "done"
    /\ http_request.exc = "ValueError"
    /\ http_request.url_before = <<"/", "p", "?", "a", "=", "1">>
    /\ http_request.params_before = << <<<<"b">>, None>> >>
    /\ http_request.url = <<"/", "p">>

====
